---- MODULE Spec2Model ----
(***************************************************************************)
(* A model of the core of nsd: the domain table of namedb.c (the name     *)
(* tree, the numbering list, the wildcard-child accelerator, the          *)
(* is_existing flag) and the zone transfer handling of xfrd.c.            *)
(*                                                                         *)
(* A domain name is the sequence of its labels read from the root down:   *)
(* <<>> is the root, <<3>> a top level name, <<3, 2>> the name "*" below  *)
(* it.  The leftmost label of the textual name is the last element.       *)
(* A domain_type* is modelled by the owner name of the domain it points   *)
(* to (a name is stored at most once in the table).                        *)
(***************************************************************************)
EXTENDS Integers, Sequences, FiniteSets, TLC

\* ------------------------------------------------------------------ bounds
\* labels below the root in a name
MaxLabels == 2
\* domains in the table, when only inserts and deletes are made
MaxDomains == 4
\* domains in the table, when RRsets are added as well
MaxRRDomains == 3
\* RRsets in the whole table
MaxRRsets == 2
\* calls of xfrd_make_request for the zone
MaxRequests == 1
\* packets in a reply
MaxParts == 2
\* RRs in the answer section of a packet
MaxAnswer == 2
\* packets in a reply, when the reply is one long stream
MaxSignedParts == 106
\* masters of a zone
MaxMasters == 2
\* seconds that pass before a report of nsd
MaxDelay == 3
\* hosts that a zone sends NOTIFY to
MaxTargets == 2
\* NOTIFY packets to one host in one round
MaxNotifySent == 7
\* the greatest refresh, retry and expire of an SOA whose timers are set
MaxTimer == 13
\* the seconds since the SOA was acquired
MaxElapsed == 3
\* the greatest number that random() returns for a timer
MaxRandom == 9
\* the hashed owner names that a zone has room for
MaxHashes == 3
\* the greatest salt of the NSEC3 records of a zone
MaxSalt == 2
\* the RRsets that are read into a zone, its SOA not counted
MaxZoneRRsets == 3
\* labels below the root in the name of a query
MaxDepth == 4
\* the greatest count in the header of a query
MaxCount == 2
\* the control connections open at a time (max_active)
MaxActive == 2
\* the tasks that wait for the next reload
MaxTasks == 2

\* --------------------------------------------------------------- constants
\* Three one-octet labels: 1 sorts before "*", 2 is "*", 3 sorts after "*".
Labels == {1, 2, 3}
WILDCARD == 2
RRTypes == {1}
\* The null pointer, and a pointer into recycled memory.
NULL == <<0>>
DANGLING == <<0, 0>>

VARIABLES
  table,    \* the domain_table_type: name tree, domains, numbering list
  removed,  \* the names the last call of domain_table_deldomain took out
  zone,     \* the xfrd_zone_t of one secondary zone
  difflog,  \* the records appended to the difflog, oldest first
  now,      \* the clock that xfrd_time() reads
  pc,       \* "make_request" while a handler is about to call xfrd_make_request
  obs,      \* what an observer of the current transfer has seen so far
  dbzone,   \* the zone_type of one zone of the name database
  prehashed, \* the nsec3 fields of the domains, as prehash left them
  db,       \* the struct db that query_process looks names up in
  query,    \* the struct query of the last query, and its reply
  rc        \* the struct daemon_remote of the control channel, with xfrd's side

ndbvars == <<table, removed>>
xfrvars == <<zone, difflog, now, pc, obs>>
qvars == <<dbzone, prehashed, db, query, rc>>
vars == <<table, removed, zone, difflog, now, pc, obs, dbzone, prehashed, db, query, rc>>

RECURSIVE NamesUpTo(_)
NamesUpTo(n) ==
  IF n = 0 THEN {<<>>}
  ELSE LET S == NamesUpTo(n - 1)
       IN S \cup {Append(s, l) : s \in {x \in S : Len(x) = n - 1}, l \in Labels}

Names == NamesUpTo(MaxLabels)

\* ------------------------------------------------------------------- dname
label_count(n) == Len(n) + 1

label_compare(a, b) == IF a < b THEN -1 ELSE IF a > b THEN 1 ELSE 0

label_is_wildcard(l) == l = WILDCARD

RECURSIVE dname_compare_from(_, _, _)
dname_compare_from(a, b, i) ==
  IF i > Len(a) /\ i > Len(b) THEN 0
  ELSE IF i > Len(a) THEN -1
  ELSE IF i > Len(b) THEN 1
  ELSE LET c == label_compare(a[i], b[i])
       IN IF c # 0 THEN c ELSE dname_compare_from(a, b, i + 1)

dname_compare(a, b) == dname_compare_from(a, b, 1)

dname_is_subdomain(a, b) == Len(a) >= Len(b) /\ SubSeq(a, 1, Len(b)) = b

RECURSIVE match_from(_, _, _)
match_from(a, b, i) ==
  IF i <= Len(a) /\ i <= Len(b) /\ a[i] = b[i] THEN match_from(a, b, i + 1)
  ELSE i

\* number of labels, the root label included, that a and b share
dname_label_match_count(a, b) == match_from(a, b, 1)

\* the rightmost `count` labels of the name (the root label included)
dname_partial_copy(dname, count) == SubSeq(dname, 1, count - 1)

\* the leftmost label of a name that is not the root
dname_name(n) == n[Len(n)]

\* ------------------------------------------------------------------- radix
\* the last and the first of a non-empty set of names in the order of the tree
RECURSIVE radix_last(_)
radix_last(S) ==
  LET x == CHOOSE y \in S : TRUE
  IN IF S = {x} THEN x
     ELSE LET r == radix_last(S \ {x})
          IN IF dname_compare(x, r) > 0 THEN x ELSE r

RECURSIVE radix_first(_)
radix_first(S) ==
  LET x == CHOOSE y \in S : TRUE
  IN IF S = {x} THEN x
     ELSE LET r == radix_first(S \ {x})
          IN IF dname_compare(x, r) < 0 THEN x ELSE r

radname_find_less_equal(tree, q) ==
  IF q \in tree THEN q
  ELSE radix_last({n \in tree : dname_compare(n, q) < 0})

radname_insert(tree, n) == tree \cup {n}

radix_delete(tree, n) == tree \ {n}

domain_next(t, d) ==
  LET after == {n \in t.nametree : dname_compare(n, d) > 0}
  IN IF after = {} THEN NULL ELSE radix_first(after)

domain_previous(t, d) ==
  LET before == {n \in t.nametree : dname_compare(n, d) < 0}
  IN IF before = {} THEN NULL ELSE radix_last(before)

\* ------------------------------------------------------------- domain table
allocate_domain_info(t, dname, parent) ==
  LET result == dname_partial_copy(dname, label_count(parent) + 1)
      lastd == t.numlist_last
      rec == [parent |-> parent,
              wildcard_child_closest_match |-> result,
              rrsets |-> <<>>,
              usage |-> 0,
              is_existing |-> FALSE,
              number |-> t.dom[lastd].number + 1,
              numlist_next |-> NULL,
              numlist_prev |-> lastd]
  IN [t EXCEPT !.dom = [@ EXCEPT ![lastd].numlist_next = result] @@ (result :> rec),
               !.numlist_last = result]

\* the last element does not get the number of the domain
swap_numbers_lost(d0, domain, lastd) ==
  [d0 EXCEPT ![domain].number = d0[lastd].number]

\* swap numbers with the last element
swap_numbers(d0, domain, lastd) ==
  [d0 EXCEPT ![domain].number = d0[lastd].number,
             ![lastd].number = d0[domain].number]

numlist_make_last(t, domain) ==
  LET lastd == t.numlist_last
      d0 == t.dom
  IN IF domain = lastd THEN t
     ELSE
       LET d1 == swap_numbers(d0, domain, lastd)
           dprev == d1[domain].numlist_prev
           d2 == IF dprev # NULL THEN [d1 EXCEPT ![dprev].numlist_next = lastd]
                 ELSE d1
           d3 == [d2 EXCEPT ![lastd].numlist_prev = dprev]
       IN IF d1[domain].numlist_next # lastd
          THEN \* case 1: there are nodes between domain .. last
            LET span_start == d1[domain].numlist_next
                span_end == d1[lastd].numlist_prev
                d4 == [d3 EXCEPT ![lastd].numlist_next = span_start]
                d5 == [d4 EXCEPT ![span_start].numlist_prev = lastd]
                d6 == [d5 EXCEPT ![span_end].numlist_next = domain]
                d7 == [d6 EXCEPT ![domain].numlist_prev = span_end]
                d8 == [d7 EXCEPT ![domain].numlist_next = NULL]
            IN [t EXCEPT !.dom = d8, !.numlist_last = domain]
          ELSE \* case 2: domain and last are neighbors
            LET d4 == [d3 EXCEPT ![lastd].numlist_next = domain]
                d5 == [d4 EXCEPT ![domain].numlist_prev = lastd]
                d6 == [d5 EXCEPT ![domain].numlist_next = NULL]
            IN [t EXCEPT !.dom = d6, !.numlist_last = domain]

numlist_pop_last(t) ==
  LET newlast == t.dom[t.numlist_last].numlist_prev
  IN [t EXCEPT !.numlist_last = newlast,
               !.dom = IF newlast # NULL THEN [@ EXCEPT ![newlast].numlist_next = NULL]
                       ELSE @]

\* the RRsets of the domain are not looked at
can_be_deleted_despite_rrsets(t, domain) ==
  IF t.dom[domain].usage # 0 THEN FALSE
  ELSE LET n == domain_next(t, domain)
       IN ~(n # NULL /\ dname_is_subdomain(n, domain))

\* the children of the domain are not looked at
can_be_deleted_despite_children(t, domain) ==
  IF t.dom[domain].rrsets # <<>> THEN FALSE
  ELSE t.dom[domain].usage = 0

domain_can_be_deleted(t, domain) ==
  IF t.dom[domain].rrsets # <<>> THEN FALSE
  ELSE IF t.dom[domain].usage # 0 THEN FALSE
  ELSE LET n == domain_next(t, domain)
       IN ~(n # NULL /\ dname_is_subdomain(n, domain))

\* region_recycle: the memory of the domain is given back; a pointer that
\* still refers to it is a pointer into recycled memory.
region_recycle(dom, domain) ==
  [n \in DOMAIN dom \ {domain} |->
     IF dom[n].wildcard_child_closest_match = domain
     THEN [dom[n] EXCEPT !.wildcard_child_closest_match = DANGLING]
     ELSE dom[n]]

do_deldomain(t, domain) ==
  LET t1 == numlist_make_last(t, domain)
      t2 == numlist_pop_last(t1)
      parent == t2.dom[domain].parent
      t3 == IF t2.dom[parent].wildcard_child_closest_match = domain
            THEN [t2 EXCEPT !.dom[parent].wildcard_child_closest_match =
                              domain_previous(t2, domain)]
            ELSE t2
  IN [t3 EXCEPT !.nametree = radix_delete(@, domain),
                !.dom = region_recycle(@, domain)]

\* The loop reads domain->parent after do_deldomain has recycled the domain;
\* region_recycle leaves that field of the block as it was.
RECURSIVE domain_table_deldomain(_, _)
domain_table_deldomain(t, domain) ==
  IF domain_can_be_deleted(t, domain)
  THEN domain_table_deldomain(do_deldomain(t, domain), t.dom[domain].parent)
  ELSE t

domain_table_create ==
  LET root == [parent |-> NULL,
               wildcard_child_closest_match |-> <<>>,
               rrsets |-> <<>>,
               usage |-> 1,
               is_existing |-> FALSE,
               number |-> 1,
               numlist_next |-> NULL,
               numlist_prev |-> NULL]
  IN [nametree |-> radname_insert({}, <<>>),
      dom |-> (<<>> :> root),
      numlist_last |-> <<>>]

\* an if where the while belongs: one step up at most
walk_up_once(t, ce, label_match_count) ==
  IF label_match_count < label_count(ce) THEN t.dom[ce].parent ELSE ce

RECURSIVE walk_up(_, _, _)
walk_up(t, ce, label_match_count) ==
  IF label_match_count < label_count(ce)
  THEN walk_up(t, t.dom[ce].parent, label_match_count)
  ELSE ce

domain_table_search(t, dname) ==
  LET closest_match == radname_find_less_equal(t.nametree, dname)
      exact == closest_match = dname
  IN [exact |-> exact,
      closest_match |-> closest_match,
      closest_encloser |->
        IF exact THEN closest_match
        ELSE walk_up(t, closest_match, dname_label_match_count(closest_match, dname))]

\* the closest encloser is returned whether the match is exact or not
find_ignoring_exact(t, dname) == domain_table_search(t, dname).closest_encloser

domain_table_find(t, dname) ==
  LET s == domain_table_search(t, dname)
  IN IF s.exact THEN s.closest_encloser ELSE NULL

\* The outcomes of a call that finds a pointer into recycled memory:
\* "alias": region_alloc hands the recycled block to the first domain the call
\* allocates, so the pointer now refers to that domain; "less", "greater":
\* the block is read as it is, and the name found there compares so.
UB == {"alias", "less", "greater"}

region_alloc_alias(dom, result, ub) ==
  IF ub = "alias"
  THEN [n \in DOMAIN dom |->
          IF dom[n].wildcard_child_closest_match = DANGLING
          THEN [dom[n] EXCEPT !.wildcard_child_closest_match = result]
          ELSE dom[n]]
  ELSE dom

\* The comparison of lines 309-312.
wildcard_update_needed(t, result, closest_encloser, ub) ==
  /\ label_compare(dname_name(result), WILDCARD) <= 0
  /\ LET w == t.dom[closest_encloser].wildcard_child_closest_match
     IN IF w = DANGLING THEN ub = "less" ELSE dname_compare(result, w) > 0

RECURSIVE insert_loop(_, _, _, _)
insert_loop(t, dname, closest_encloser, ub) ==
  LET t0 == allocate_domain_info(t, dname, closest_encloser)
      result == t0.numlist_last
      t1 == [t0 EXCEPT !.dom = region_alloc_alias(@, result, ub)]
      t2 == [t1 EXCEPT !.nametree = radname_insert(@, result)]
      t3 == IF wildcard_update_needed(t2, result, closest_encloser, ub)
            THEN [t2 EXCEPT !.dom[closest_encloser].wildcard_child_closest_match = result]
            ELSE t2
  IN IF label_count(result) < label_count(dname)
     THEN insert_loop(t3, dname, result, "greater")
     ELSE [table |-> t3, result |-> result]

domain_table_insert(t, dname, ub) ==
  LET s == domain_table_search(t, dname)
  IN IF s.exact THEN [table |-> t, result |-> s.closest_encloser]
     ELSE insert_loop(t, dname, s.closest_encloser, ub)

\* only the domain itself is marked
mark_existing_self(dom, domain) ==
  IF domain # NULL /\ ~dom[domain].is_existing
  THEN [dom EXCEPT ![domain].is_existing = TRUE]
  ELSE dom

RECURSIVE mark_existing(_, _)
mark_existing(dom, domain) ==
  IF domain # NULL /\ ~dom[domain].is_existing
  THEN mark_existing([dom EXCEPT ![domain].is_existing = TRUE], dom[domain].parent)
  ELSE dom

domain_add_rrset(t, domain, rrset) ==
  [t EXCEPT !.dom = mark_existing([@ EXCEPT ![domain].rrsets = Append(@, rrset)], domain)]

domain_wildcard_child(t, domain) ==
  LET wildcard_child == t.dom[domain].wildcard_child_closest_match
  IN IF wildcard_child # domain /\ label_is_wildcard(dname_name(wildcard_child))
     THEN wildcard_child
     ELSE NULL

\* ------------------------------------------------------------------- nsec3
\* An RRset is the record of its zone (a number), its type, and for an NSEC3
\* RRset the SOA bit of the type bitmap and the salt of its first RR.  A
\* pointer to an RRset of a domain is its place in the list of the domain,
\* 0 for the null pointer.  zone.nsec3_rrset is the owner of that RRset.
domain_find_rrset(t, domain, z, type) ==
  LET rrsets == t.dom[domain].rrsets
      found == {i \in 1..Len(rrsets) :
                  rrsets[i].zone = z.number /\ rrsets[i].type = type}
  IN IF found = {} THEN 0 ELSE CHOOSE i \in found : \A j \in found : i <= j

RECURSIVE domain_find_zone(_, _)
domain_find_zone(t, domain) ==
  IF domain = NULL THEN 0
  ELSE LET rrsets == t.dom[domain].rrsets
           soas == {i \in 1..Len(rrsets) : rrsets[i].type = "SOA"}
       IN IF soas # {}
          THEN rrsets[CHOOSE i \in soas : \A j \in soas : i <= j].zone
          ELSE domain_find_zone(t, t.dom[domain].parent)

\* The first label of a hashed owner name sorts after "*" and after the
\* labels of the other names of the zone that are read here.
HASH_BASE == 4
HashLabels == HASH_BASE..(HASH_BASE + MaxHashes - 1)

RECURSIVE SumLabels(_)
SumLabels(dname) ==
  IF dname = <<>> THEN 0 ELSE Head(dname) + SumLabels(Tail(dname))

\* The hash of a name under a salt: names collide, and which names collide
\* changes with the salt.
iterated_hash(salt, dname) == (SumLabels(dname) + salt * Len(dname)) % MaxHashes

detect_nsec3_params(t, nsec3_apex, z) ==
  t.dom[nsec3_apex].rrsets[domain_find_rrset(t, nsec3_apex, z, "NSEC3")].salt

nsec3_hash_dname(t, z, dname) ==
  Append(z.apex,
         HASH_BASE + iterated_hash(detect_nsec3_params(t, z.nsec3_rrset, z), dname))

nsec3_has_soa(rrset) == rrset.soa_bit

RECURSIVE find_zone_nsec3(_, _, _)
find_zone_nsec3(t, z, domain) ==
  IF domain # NULL /\ dname_is_subdomain(domain, z.apex)
  THEN LET rrset == domain_find_rrset(t, domain, z, "NSEC3")
       IN IF rrset # 0 /\ nsec3_has_soa(t.dom[domain].rrsets[rrset])
          THEN domain
          ELSE find_zone_nsec3(t, z, domain_next(t, domain))
  ELSE NULL

RECURSIVE nsec3_find_last_from(_, _, _, _)
nsec3_find_last_from(t, z, walk, result) ==
  IF walk # NULL /\ dname_is_subdomain(walk, z.apex)
  THEN nsec3_find_last_from(
         t, z, domain_next(t, walk),
         IF domain_find_rrset(t, walk, z, "NSEC3") # 0 THEN walk ELSE result)
  ELSE result

nsec3_find_last(t, z) == nsec3_find_last_from(t, z, z.apex, NULL)

\* the loop of nsec3_find_cover: the first domain at or before walk, within
\* the zone, that has an NSEC3 RRset of the zone; NULL when there is none
RECURSIVE nsec3_cover_walk(_, _, _)
nsec3_cover_walk(t, z, walk) ==
  IF walk # NULL /\ dname_is_subdomain(walk, z.apex)
  THEN IF domain_find_rrset(t, walk, z, "NSEC3") # 0
       THEN walk
       ELSE nsec3_cover_walk(t, z, domain_previous(t, walk))
  ELSE NULL

\* no NSEC3 before the closest match: the null pointer is returned
nsec3_wrap_null(z) == NULL

\* no NSEC3 before the closest match: the last NSEC3 covers the wraparound
nsec3_wrap(z) == z.nsec3_last

nsec3_find_cover(t, z, hashname) ==
  LET s == domain_table_search(t, hashname)
  IN IF s.exact /\ domain_find_rrset(t, s.closest_encloser, z, "NSEC3") # 0
     THEN [exact |-> TRUE, result |-> s.closest_encloser]
     ELSE LET walk == nsec3_cover_walk(t, z, s.closest_match)
          IN [exact |-> FALSE,
              result |-> IF walk # NULL THEN walk ELSE nsec3_wrap(z)]

\* the nsec3 fields of a domain that prehash has not come to
prehash_none ==
  [nsec3_exact |-> NULL, nsec3_cover |-> NULL, nsec3_wcard_child_cover |-> NULL]

prehash_domain(t, z, domain) ==
  IF z.nsec3_rrset = NULL
  THEN prehash_none
  ELSE LET own == nsec3_find_cover(t, z, nsec3_hash_dname(t, z, domain))
           wcard_child == Append(domain, WILDCARD)
           wcard == nsec3_find_cover(t, z, nsec3_hash_dname(t, z, wcard_child))
       IN [nsec3_exact |-> IF own.exact THEN own.result ELSE NULL,
           nsec3_cover |-> own.result,
           nsec3_wcard_child_cover |-> wcard.result]

\* The zone after prehash_zone has found its settings; the assertion of line
\* 232 is compiled out.
prehash_zone_settings(t, z) ==
  LET z1 == [z EXCEPT !.nsec3_rrset = find_zone_nsec3(t, z, z.apex)]
      z2 == [z1 EXCEPT !.nsec3_last = nsec3_find_last(t, z1)]
  IN IF z2.nsec3_rrset # NULL
        /\ dname_compare(nsec3_hash_dname(t, z2, z2.apex), z2.nsec3_rrset) # 0
     THEN [z2 EXCEPT !.nsec3_rrset = NULL, !.nsec3_last = NULL]
     ELSE z2

\* The domains of the zone get their nsec3 fields; the zone has no DS.
prehash_zone(t, z) ==
  LET z1 == prehash_zone_settings(t, z)
  IN [zone |-> z1,
      domains |->
        [d \in t.nametree |->
           IF dname_is_subdomain(d, z1.apex) /\ domain_find_zone(t, d) = z1.number
           THEN prehash_domain(t, z1, d)
           ELSE prehash_none]]

\* The authority section is the set of the owners whose NSEC3 RRset it holds.
nsec3_add_rrset(t, z, answer, domain) ==
  IF domain # NULL /\ domain_find_rrset(t, domain, z, "NSEC3") # 0
  THEN answer \cup {domain}
  ELSE answer

nsec3_add_nonexist_proof(t, z, q, encloser) ==
  LET to_prove == dname_partial_copy(
                    q.qname, dname_label_match_count(q.qname, encloser) + 1)
      cover == nsec3_find_cover(t, z, nsec3_hash_dname(t, z, to_prove))
  IN IF cover.exact
     THEN [q EXCEPT !.rcode = "SERVFAIL"]
     ELSE [q EXCEPT !.answer = nsec3_add_rrset(t, z, q.answer, cover.result)]

nsec3_add_closest_encloser_proof(t, z, ph, q, closest_encloser) ==
  IF closest_encloser = NULL
  THEN q
  ELSE LET q1 == nsec3_add_nonexist_proof(t, z, q, closest_encloser)
       IN [q1 EXCEPT !.answer = nsec3_add_rrset(
                                  t, z, q1.answer, ph[closest_encloser].nsec3_exact)]

domain_has_only_NSEC3(t, domain, z) ==
  LET of_zone == {i \in 1..Len(t.dom[domain].rrsets) :
                    t.dom[domain].rrsets[i].zone = z.number}
  IN /\ of_zone # {}
     /\ \A i \in of_zone : t.dom[domain].rrsets[i].type = "NSEC3"

\* the match that is left after the names with NSEC3 RRsets only are hidden
nsec3_answer_match(t, z, q, match) ==
  IF q.qtype # "NSEC3" /\ match # NULL /\ domain_has_only_NSEC3(t, match, z)
  THEN NULL
  ELSE match

nsec3_name_error(t, z, ph, q, closest_encloser) ==
  IF q.qtype = "NSEC3"
  THEN [q EXCEPT !.answer = nsec3_add_rrset(
                              t, z, q.answer,
                              nsec3_find_cover(t, z, q.qname).result)]
  ELSE LET ce == ph[closest_encloser]
           q1 == IF ce.nsec3_wcard_child_cover = ce.nsec3_exact
                 THEN [q EXCEPT !.rcode = "SERVFAIL"]
                 ELSE q
           q2 == nsec3_add_closest_encloser_proof(t, z, ph, q1, closest_encloser)
       IN [q2 EXCEPT !.answer = nsec3_add_rrset(
                                  t, z, q2.answer, ce.nsec3_wcard_child_cover)]

nsec3_answer_authoritative(t, z, ph, q, match, closest_encloser) ==
  LET m == nsec3_answer_match(t, z, q, match)
  IN [match |-> m,
      query |-> IF m = NULL
                THEN nsec3_name_error(t, z, ph, q, closest_encloser)
                ELSE q]

\* ------------------------------------------------------------------- zonec
\* An RRset of the zone compiler is the record of its zone, type and ttl, the
\* number of its RRs and the array of their rdata; zone.soa_rrset and
\* zone.ns_rrset are the owners of the RRsets they point to.
new_rrset(rr) ==
  [zone |-> rr.zone, type |-> rr.type, ttl |-> rr.ttl, rrslen |-> 1,
   rrs |-> <<rr.rdata>>]

\* An rdata atom is a pointer to a domain or a pointer to data, which is a
\* length and that many bytes; the array of the atoms of an RR ends with a
\* terminator, the atom after the last element of the sequence here.
DomainAtom(d) == [domain |-> d, data |-> <<>>]
DataAtom(bytes) == [domain |-> NULL, data |-> bytes]
rdata_atom_is_terminator(rdata, i) == i > Len(rdata)
rdata_atom_domain(atom) == atom.domain
rdata_atom_size(atom) == Len(atom.data)
rdata_atom_data(atom) == atom.data

\* the wire format of the rdata of the types of RR
rrtype_descriptor_by_type(type) ==
  IF type = "SOA"
  THEN <<"dname", "dname", "long", "long", "long", "long", "long">>
  ELSE IF type = "NS" THEN <<"dname">>
  ELSE IF type = "MX" THEN <<"short", "dname">>
  ELSE <<"text">>

\* index counts the atoms from 0
rdata_atom_is_domain(type, index) ==
  /\ index < Len(rrtype_descriptor_by_type(type))
  /\ rrtype_descriptor_by_type(type)[index + 1] = "dname"

\* The loop of zrdatacmp from element i on, counted from 1: the elements
\* are compared until one of the arrays ends or a data atom has been
\* compared, and then the ends of the arrays.
RECURSIVE zrdatacmp_from(_, _, _, _)
zrdatacmp_from(type, a, b, i) ==
  LET ends == IF rdata_atom_is_terminator(a, i) # rdata_atom_is_terminator(b, i)
              THEN 1 ELSE 0
  IN IF rdata_atom_is_terminator(a, i) \/ rdata_atom_is_terminator(b, i)
     THEN ends
     ELSE IF rdata_atom_is_domain(type, i - 1)
     THEN IF rdata_atom_domain(a[i]) # rdata_atom_domain(b[i])
          THEN 1
          ELSE zrdatacmp_from(type, a, b, i + 1)
     ELSE IF rdata_atom_size(a[i]) # rdata_atom_size(b[i])
     THEN 1
     ELSE IF rdata_atom_data(a[i]) # rdata_atom_data(b[i])
     THEN 1
     ELSE ends

zrdatacmp(type, a, b) == zrdatacmp_from(type, a, b, 1)

\* the search for possible duplicates: the place of the first RR of the
\* RRset that zrdatacmp finds equal, rrslen + 1 when there is none
find_duplicate(rrset, rdata) ==
  LET dup == {i \in 1..rrset.rrslen : zrdatacmp(rrset.type, rrset.rrs[i], rdata) = 0}
  IN IF dup = {} THEN rrset.rrslen + 1 ELSE CHOOSE i \in dup : \A k \in dup : i <= k

\* the duplicate SOA is taken off the RRset again
discard_duplicate_soa(rrset) == [rrset EXCEPT !.rrslen = @ - 1]

\* the end of process_rr, after the RR has been put in an RRset of its domain
process_rr_zone(t, z, rr) ==
  LET rrset == domain_find_rrset(t, rr.domain, z, rr.type)
      z1 == IF z.soa_rrset = NULL /\ rr.type = "SOA" /\ rr.domain = z.domain
            THEN [z EXCEPT !.soa_rrset = rr.domain]
            ELSE z
      t1 == IF z.soa_rrset # NULL /\ rr.type = "SOA"
            THEN [t EXCEPT !.dom[rr.domain].rrsets[rrset] =
                             discard_duplicate_soa(@)]
            ELSE t
  IN [ret |-> 1,
      table |-> t1,
      zone |-> IF rr.type = "NS" /\ rr.domain = z.domain
               THEN [z1 EXCEPT !.ns_rrset = rr.domain]
               ELSE z1]

process_rr(t, z, rr) ==
  IF rr.class # "IN" \/ ~dname_is_subdomain(rr.domain, z.domain)
  THEN [ret |-> 0, table |-> t, zone |-> z]
  ELSE LET found == domain_find_rrset(t, rr.domain, z, rr.type)
       IN IF found = 0
          THEN process_rr_zone(domain_add_rrset(t, rr.domain, new_rrset(rr)), z, rr)
          ELSE LET rrset == t.dom[rr.domain].rrsets[found]
               IN IF \/ rrset.ttl # rr.ttl
                     \/ find_duplicate(rrset, rr.rdata) <= rrset.rrslen
                  THEN [ret |-> 0, table |-> t, zone |-> z]
                  ELSE process_rr_zone(
                         [t EXCEPT !.dom[rr.domain].rrsets[found] =
                            [rrset EXCEPT
                               !.rrs = Append(SubSeq(@, 1, rrset.rrslen), rr.rdata),
                               !.rrslen = @ + 1]],
                         z, rr)

\* ------------------------------------------------------------------- query
\* The compiled database: a function from the names that have data to their
\* flags and to the types they have an answer for.  Each mask holds the
\* depths (numbers of labels) at which the database has a name, a wildcard
\* name, and a name with an SOA or a delegation.
mask_data(d) == {Len(n) : n \in DOMAIN d}
mask_stars(d) == {Len(n) : n \in {w \in DOMAIN d : w # <<>> /\ w[Len(w)] = WILDCARD}}
mask_auth(d) ==
  {Len(n) : n \in {a \in DOMAIN d : d[a].delegation \/ "SOA" \in d[a].answers}}
TSTMASK(mask, depth) == depth \in mask

db_lookup(d, dname) == IF dname \in DOMAIN d THEN dname ELSE NULL
db_answer(d, dname, type) == type \in d[dname].answers

\* the first two octets of flags are cleared before any of them is read
query_clear_flags(q) == [q EXCEPT !.opcode = "QUERY", !.tc = FALSE]

\* the reply with its RCODE; what was added to it, from which name of the
\* database, and whether that name was found as a wildcard
query_reply(rcode) ==
  [rcode |-> rcode, aa |-> FALSE, section |-> "none", owner |-> NULL,
   wildcard |-> FALSE]
query_addanswer(rcode, aa, section, owner, wildcard) ==
  [rcode |-> rcode, aa |-> aa, section |-> section, owner |-> owner,
   wildcard |-> wildcard]

strip_label(qname) == SubSeq(qname, 1, Len(qname) - 1)

\* the loop that strips the leftmost label, entered with RCODE rcode
RECURSIVE query_match_down(_, _, _, _)
query_match_down(d, q, name, rcode) ==
  LET qname == strip_label(name)
      star == Append(qname, WILDCARD)
      aa == q.qclass # "ANY"
      next(code) == IF qname = <<>>
                  THEN query_reply("SERVFAIL")
                  ELSE query_match_down(d, q, qname, code)
  IN IF TSTMASK(mask_auth(d), Len(qname)) /\ db_lookup(d, qname) # NULL
     THEN IF d[qname].delegation
          THEN IF ~db_answer(d, qname, "NS")
               THEN query_reply("SERVFAIL")
               ELSE query_addanswer("OK", FALSE, "answer", qname, FALSE)
          ELSE IF db_answer(d, qname, "SOA")
               THEN query_addanswer(rcode, aa, "authority", qname, FALSE)
               ELSE next(rcode)
     ELSE IF /\ TSTMASK(mask_stars(d), Len(qname) + 1)
             /\ rcode = "NXDOMAIN"
             /\ db_lookup(d, star) # NULL
          THEN IF db_answer(d, star, q.qtype)
               THEN query_addanswer("OK", aa, "answer", star, TRUE)
               ELSE next("OK")
          ELSE next(rcode)

\* the lookup of the complete name, and then of the names above it
query_lookup(d, q) ==
  LET aa == q.qclass # "ANY"
  IN IF TSTMASK(mask_data(d), Len(q.qname)) /\ db_lookup(d, q.qname) # NULL
     THEN IF d[q.qname].delegation
          THEN IF ~db_answer(d, q.qname, "NS")
               THEN query_reply("SERVFAIL")
               ELSE query_addanswer("OK", FALSE, "answer", q.qname, FALSE)
          ELSE IF db_answer(d, q.qname, q.qtype)
               THEN query_addanswer("OK", aa, "answer", q.qname, FALSE)
               ELSE IF db_answer(d, q.qname, "SOA")
                    THEN query_addanswer("OK", aa, "authority", q.qname, FALSE)
                    ELSE query_match_down(d, q, q.qname, "OK")
     ELSE query_match_down(d, q, q.qname, "NXDOMAIN")

\* the question count that is answered
one_question(qdcount) == qdcount = 1

query_process(d, q0) ==
  LET q == query_clear_flags(q0)
  IN IF q.opcode # "QUERY" THEN query_reply("IMPL")
     ELSE IF ~one_question(q.qdcount) THEN query_reply("IMPL")
     ELSE IF q.ancount # 0 \/ q.nscount # 0 \/ q.arcount # 0
          THEN query_reply("FORMAT")
     ELSE IF q.compressed \/ q.tc THEN query_reply("FORMAT")
     ELSE IF q.qclass \notin {"IN", "ANY"} THEN query_reply("REFUSE")
     ELSE IF q.qtype \in {"AXFR", "IXFR"} THEN query_reply("REFUSE")
     ELSE IF q.qtype \in {"MAILA", "MAILB"} THEN query_reply("IMPL")
     ELSE query_lookup(d, q)

\* -------------------------------------------------------------------- xfrd
\* One secondary zone.  The masters of the zone are a sequence of acl entries
\* [key_options, use_axfr_only]; zone.master is the index of the current one,
\* counted from 0 as master_num is, and -1 for the null pointer.  An SOA is
\* the record of its serial and its refresh, retry and expire intervals, all
\* in host byte order.  zone.timeout is the second at which the zone timer
\* fires.  The reload flag is not part of this state, and the TCP pool holds
\* a free connection whenever this zone asks for one (tcp_waiting stays 0).
XFRD_TRANSFER_TIMEOUT == 10
XFRD_TCP_TIMEOUT == 120
XFRD_UDP_TIMEOUT == 10
XFRD_LOWERBOUND_REFRESH == 1
XFRD_LOWERBOUND_RETRY == 1
XFRD_MAX_ROUNDS == 3
XFRD_TSIG_MAX_UNSIGNED == 103
XFRD_NOTIFY_RETRY_TIMOUT == 15
XFRD_NOTIFY_MAX_NUM == 5
Serials == {1, 2, 3}
\* The SOA of the zone at each serial.  Serial 1 has short intervals, serial
\* 2 intervals long enough for the timer to be randomized, serial 3 expires
\* before its refresh is due and has a retry below the lower bound.
SoaTimers ==
  <<[refresh |-> 2, retry |-> 1, expire |-> 4],
    [refresh |-> 20, retry |-> 5, expire |-> 40],
    [refresh |-> 6, retry |-> 0, expire |-> 3]>>
Soa(serial) ==
  [refresh |-> SoaTimers[serial].refresh, retry |-> SoaTimers[serial].retry,
   expire |-> SoaTimers[serial].expire, serial |-> serial]
SoaRR(serial) ==
  [refresh |-> SoaTimers[serial].refresh, retry |-> SoaTimers[serial].retry,
   expire |-> SoaTimers[serial].expire, serial |-> serial, type |-> "SOA"]
OtherRR == [refresh |-> 0, retry |-> 0, expire |-> 0, serial |-> 0, type |-> "A"]
soa_zero == [refresh |-> 0, retry |-> 0, expire |-> 0, serial |-> 0]
\* A packet carries no TSIG RR, one that verifies, one whose signature does
\* not verify, or one that cannot be parsed.
TsigKinds == {"none", "valid", "badsig", "malformed"}
\* An RR of the answer section: an SOA of class IN with a serial, another
\* well-formed RR, or octets that do not parse as an RR.
RRs == {SoaRR(s) : s \in Serials} \cup {OtherRR}
BadRR == [refresh |-> 0, retry |-> 0, expire |-> 0, serial |-> 0, type |-> "BAD"]
\* The answer sections of up to n RRs: the RRs parse, or all but the last do.
Answers(n) ==
  LET parsing(m) == UNION {[1..k -> RRs] : k \in 0..m}
  IN parsing(n) \cup {Append(a, BadRR) : a \in parsing(n - 1)}

\* RFC 1982 order on 32 bit serials
compare_serial(a, b) ==
  IF a = b THEN 0
  ELSE IF (a < b /\ b - a <= 2147483647) \/ (a > b /\ a - b - 1 > 2147483647)
       THEN -1
       ELSE 1

tsig_prepare(tsig) == [tsig EXCEPT !.updates_since_last_prepare = 0]
tsig_update(tsig) == [tsig EXCEPT !.updates_since_last_prepare = @ + 1]
tsig_find_rr(packet) == packet.tsig # "malformed"
tsig_status(packet) ==
  IF packet.tsig \in {"valid", "badsig"} THEN "TSIG_OK" ELSE "TSIG_NOT_PRESENT"
tsig_verify(packet) == packet.tsig = "valid"

diff_write_packet(log, new_serial, id, seq_nr) ==
  Append(log, [type |-> "packet", old_serial |-> 0, new_serial |-> new_serial,
               id |-> id, seq_nr |-> seq_nr, commit |-> 0])
diff_write_commit(log, old_serial, new_serial, id, num_parts, commit) ==
  Append(log, [type |-> "commit", old_serial |-> old_serial,
               new_serial |-> new_serial, id |-> id, seq_nr |-> num_parts,
               commit |-> commit])

\* The options of a zone with these masters, which sends no NOTIFY and
\* allows none.
Masters(request_xfr) ==
  [request_xfr |-> request_xfr, notify |-> <<>>, allow_notify |-> <<>>]

\* zone_opt: the options of the zone, its lists request_xfr, notify and
\* allow_notify; dbsoa: the SOA of the zone in the database, <<>> when the
\* zone is empty.  notify_current is an index into the notify list, counted
\* from 0, and -1 for the null pointer; notify_enabled tells that the
\* notify handler has a timeout.
xfrd_init_zone(zone_opt, dbsoa, t) ==
  [ state |-> "expired",
    zone_options |-> zone_opt,
    notify_current |-> -1, notify_retry |-> 0, notify_fd |-> -1,
    notify_enabled |-> FALSE, notify_timeout |-> 0, notify_query_id |-> 0,
    master |-> -1, master_num |-> 0, next_master |-> 0, round_num |-> 0,
    soa_nsd |-> IF dbsoa = <<>> THEN soa_zero ELSE dbsoa[1],
    soa_nsd_acquired |-> IF dbsoa = <<>> THEN 0 ELSE t,
    soa_disk |-> IF dbsoa = <<>> THEN soa_zero ELSE dbsoa[1],
    soa_disk_acquired |-> IF dbsoa = <<>> THEN 0 ELSE t,
    soa_notified |-> soa_zero, soa_notified_acquired |-> 0,
    fd |-> -1, tcp_conn |-> -1, timeout |-> t,
    query_id |-> 0, msg_seq_nr |-> 0, msg_rr_count |-> 0,
    msg_old_serial |-> 0, msg_new_serial |-> 0, msg_is_ixfr |-> 0,
    tsig |-> [updates_since_last_prepare |-> 0] ]

Master(z) == z.zone_options.request_xfr[z.master + 1]

\* random() % n, where random() returns r
random_mod(r, n) == r % n
\* 59 leaves the greatest remainder for each divisor that the timers of the
\* zones below come to (2 to 6, 10 and 12)
Randoms == {<<a, b>> : a, b \in {0, 59}}

\* time is xfrd_time(); rnd[1] decides the random() of xfrd_set_timer and
\* rnd[2] the one of xfrd_set_timer_retry
xfrd_set_timer(z, t, time, rnd) ==
  IF t > time + 10
  THEN LET extra == t - time
           base == (extra * 9) \div 10
       IN [z EXCEPT !.timeout = time + base + random_mod(rnd[1], extra - base)]
  ELSE [z EXCEPT !.timeout = t]

xfrd_set_refresh_now(z, time) == xfrd_set_timer(z, time, time, <<0, 0>>)

xfrd_set_timer_retry(z, time, rnd) ==
  IF z.soa_disk_acquired = 0
  THEN xfrd_set_timer(z, time + XFRD_TRANSFER_TIMEOUT
                           + random_mod(rnd[2], XFRD_TRANSFER_TIMEOUT),
                      time, rnd)
  ELSE IF z.state = "expired"
            \/ time + z.soa_disk.retry < z.soa_disk_acquired + z.soa_disk.expire
  THEN IF z.soa_disk.retry < XFRD_LOWERBOUND_RETRY
       THEN xfrd_set_timer(z, time + XFRD_LOWERBOUND_RETRY, time, rnd)
       ELSE xfrd_set_timer(z, time + z.soa_disk.retry, time, rnd)
  ELSE IF z.soa_disk.expire < XFRD_LOWERBOUND_RETRY
       THEN xfrd_set_timer(z, time + XFRD_LOWERBOUND_RETRY, time, rnd)
       ELSE xfrd_set_timer(z, z.soa_disk_acquired + z.soa_disk.expire, time, rnd)

\* the refresh or expire time is taken as it is
refresh_unbounded(set, set_min) == set

refresh_lower_bound(set, set_min) == IF set < set_min THEN set_min ELSE set

xfrd_set_timer_refresh(z, time, rnd) ==
  IF z.soa_disk_acquired = 0 \/ z.state # "ok"
  THEN xfrd_set_timer_retry(z, time, rnd)
  ELSE LET set_refresh == z.soa_disk_acquired + z.soa_disk.refresh
           set_expire == z.soa_disk_acquired + z.soa_disk.expire
           set_min == z.soa_disk_acquired + XFRD_LOWERBOUND_REFRESH
           set == IF set_refresh < set_expire THEN set_refresh ELSE set_expire
       IN xfrd_set_timer(z, refresh_lower_bound(set, set_min), time, rnd)

xfrd_set_zone_state(z, s) == [z EXCEPT !.state = s]

xfrd_tsig_sign_request(tsig) == tsig_prepare(tsig_update(tsig_prepare(tsig)))

\* The id of a request is drawn at random; here each request takes the next
\* id, so the requests of a run have distinct ids.
xfrd_setup_packet(z) == z.query_id + 1

xfrd_send_ixfr_request_udp(z, sent) ==
  IF z.tcp_conn # -1
  THEN [z EXCEPT !.fd = -1]
  ELSE LET z1 == [z EXCEPT !.query_id = xfrd_setup_packet(z),
                           !.msg_seq_nr = 0, !.msg_rr_count = 0]
           z2 == IF Master(z1).key_options
                 THEN [z1 EXCEPT !.tsig = xfrd_tsig_sign_request(@)]
                 ELSE z1
       IN [z2 EXCEPT !.fd = IF sent THEN 1 ELSE -1]

xfrd_tcp_xfr(z) ==
  LET z1 == [z EXCEPT !.query_id = xfrd_setup_packet(z),
                      !.msg_seq_nr = 0, !.msg_rr_count = 0]
  IN IF Master(z1).key_options
     THEN [z1 EXCEPT !.tsig = xfrd_tsig_sign_request(@)]
     ELSE z1

xfrd_tcp_obtain(z) == xfrd_tcp_xfr([z EXCEPT !.tcp_conn = 0, !.fd = 1])

xfrd_tcp_release(z) == [z EXCEPT !.tcp_conn = -1, !.fd = -1]

\* the masters are tried one round more
rounds_exhausted_late(z) == z.round_num > XFRD_MAX_ROUNDS

\* tried all servers that many times
rounds_exhausted(z) == z.round_num >= XFRD_MAX_ROUNDS

xfrd_make_request(z, sent, time, rnd) ==
  LET request_xfr == z.zone_options.request_xfr
      cycled ==
        IF z.next_master # -1
        THEN LET found == z.next_master < Len(request_xfr)
             IN [z EXCEPT !.master_num = IF found THEN z.next_master ELSE 0,
                          !.master = IF found THEN z.next_master ELSE 0,
                          !.next_master = -1,
                          !.round_num = 0]
        ELSE IF z.round_num # -1 /\ z.master # -1
                  /\ z.master + 1 < Len(request_xfr)
             THEN [z EXCEPT !.master = @ + 1, !.master_num = @ + 1]
             ELSE [z EXCEPT !.master = 0, !.master_num = 0, !.round_num = @ + 1]
  IN IF z.next_master = -1 /\ rounds_exhausted(cycled)
     THEN xfrd_set_timer_retry([cycled EXCEPT !.round_num = -1], time, rnd)
     ELSE IF cycled.soa_disk_acquired = 0 \/ Master(cycled).use_axfr_only
          THEN xfrd_tcp_obtain(
                 xfrd_set_timer(cycled, time + XFRD_TCP_TIMEOUT, time, rnd))
          ELSE xfrd_send_ixfr_request_udp(
                 xfrd_set_timer(cycled, time + XFRD_UDP_TIMEOUT, time, rnd), sent)

\* the socket of the last request stays open
keep_handler_fd(z) == z

\* the socket of the last request, when there is one, is closed
close_handler_fd(z) == [z EXCEPT !.fd = -1]

\* The timeout event of the zone handler at the second time, up to its call
\* of xfrd_make_request.
xfrd_handle_zone(z, time) ==
  LET z1 == IF z.tcp_conn # -1 THEN xfrd_tcp_release(z) ELSE z
      z2 == close_handler_fd(z1)
  IN IF z2.soa_disk_acquired # 0
     THEN IF z2.state # "expired"
               /\ time >= z2.soa_disk_acquired + z2.soa_disk.expire
          THEN xfrd_set_zone_state(z2, "expired")
          ELSE IF z2.state = "ok"
                    /\ time >= z2.soa_disk_acquired + z2.soa_disk.refresh
               THEN xfrd_set_zone_state(z2, "refreshing")
               ELSE z2
     ELSE z2

\* xfrd_handle_incoming_notify that takes a NOTIFY of any serial
xfrd_handle_incoming_notify_any(z, soa, t) ==
  LET z1 == IF soa = <<>>
            THEN [z EXCEPT !.soa_notified.serial = 0]
            ELSE IF z.soa_notified_acquired = 0 \/ z.soa_notified.serial = 0
                      \/ compare_serial(soa[1].serial, z.soa_notified.serial) > 0
            THEN [z EXCEPT !.soa_notified = soa[1]]
            ELSE z
      z2 == [z1 EXCEPT !.soa_notified_acquired = t]
  IN [res |-> 1,
      zone |-> IF z2.state = "ok"
               THEN xfrd_set_zone_state(z2, "refreshing") ELSE z2]

\* soa is <<>> for the null pointer; res is 1 when a transfer is needed
xfrd_handle_incoming_notify(z, soa, t) ==
  IF soa # <<>> /\ z.soa_disk_acquired # 0 /\ z.state # "expired"
       /\ compare_serial(soa[1].serial, z.soa_disk.serial) <= 0
  THEN [res |-> 0, zone |-> z]
  ELSE LET z1 == IF soa = <<>>
                 THEN [z EXCEPT !.soa_notified.serial = 0]
                 ELSE IF z.soa_notified_acquired = 0 \/ z.soa_notified.serial = 0
                           \/ compare_serial(soa[1].serial,
                                             z.soa_notified.serial) > 0
                 THEN [z EXCEPT !.soa_notified = soa[1]]
                 ELSE z
           z2 == [z1 EXCEPT !.soa_notified_acquired = t]
       IN [res |-> 1,
           zone |-> IF z2.state = "ok"
                    THEN xfrd_set_zone_state(z2, "refreshing") ELSE z2]

xfrd_parse_soa_info(rr) ==
  [ok |-> rr.type = "SOA",
   soa |-> [refresh |-> rr.refresh, retry |-> rr.retry, expire |-> rr.expire,
            serial |-> rr.serial]]

\* the loop that takes the middle SOA of an IXFR for its last
RECURSIVE xfrd_xfr_check_rrs_early(_, _, _, _)
xfrd_xfr_check_rrs_early(z, rrs, done, soa) ==
  IF rrs = <<>>
  THEN [ok |-> TRUE, zone |-> z, done |-> done, soa |-> soa]
  ELSE LET rr == Head(rrs)
           counted(zz) == [zz EXCEPT !.msg_rr_count = @ + 1]
       IN IF rr.type = "BAD"
          THEN [ok |-> FALSE, zone |-> z, done |-> done, soa |-> soa]
          ELSE IF rr.type # "SOA"
          THEN xfrd_xfr_check_rrs_early(counted(z), Tail(rrs), done, soa)
          ELSE LET parsed == xfrd_parse_soa_info(rr).soa
               IN IF z.msg_rr_count = 1 /\ parsed.serial # z.msg_new_serial
                  THEN LET z1 == [z EXCEPT !.msg_is_ixfr = 1]
                       IN IF z1.soa_disk_acquired = 0
                             \/ parsed.serial # z1.soa_disk.serial
                          THEN [ok |-> FALSE, zone |-> z1, done |-> done,
                                soa |-> parsed]
                          ELSE xfrd_xfr_check_rrs_early(
                                 counted([z1 EXCEPT !.msg_old_serial = parsed.serial]),
                                 Tail(rrs), done, parsed)
                  ELSE IF parsed.serial = z.msg_new_serial
                  THEN xfrd_xfr_check_rrs_early(counted(z), Tail(rrs), TRUE, parsed)
                  ELSE xfrd_xfr_check_rrs_early(counted(z), Tail(rrs), done, parsed)

\* The loop of xfrd_xfr_check_rrs over the RRs that are left, with the values
\* of *done and *soa so far.
RECURSIVE xfrd_xfr_check_rrs(_, _, _, _)
xfrd_xfr_check_rrs(z, rrs, done, soa) ==
  IF rrs = <<>>
  THEN [ok |-> TRUE, zone |-> z, done |-> done, soa |-> soa]
  ELSE LET rr == Head(rrs)
           counted(zz) == [zz EXCEPT !.msg_rr_count = @ + 1]
       IN IF rr.type = "BAD"
          THEN [ok |-> FALSE, zone |-> z, done |-> done, soa |-> soa]
          ELSE IF rr.type # "SOA"
          THEN xfrd_xfr_check_rrs(counted(z), Tail(rrs), done, soa)
          ELSE LET parsed == xfrd_parse_soa_info(rr).soa
               IN IF z.msg_rr_count = 1 /\ parsed.serial # z.msg_new_serial
                  THEN LET z1 == [z EXCEPT !.msg_is_ixfr = 1]
                       IN IF z1.soa_disk_acquired = 0
                             \/ parsed.serial # z1.soa_disk.serial
                          THEN [ok |-> FALSE, zone |-> z1, done |-> done,
                                soa |-> parsed]
                          ELSE xfrd_xfr_check_rrs(
                                 counted([z1 EXCEPT !.msg_old_serial = parsed.serial]),
                                 Tail(rrs), done, parsed)
                  ELSE IF parsed.serial = z.msg_new_serial
                  THEN IF z.msg_is_ixfr = 1
                       THEN xfrd_xfr_check_rrs(
                              counted([z EXCEPT !.msg_is_ixfr = 2]),
                              Tail(rrs), done, parsed)
                       ELSE xfrd_xfr_check_rrs(counted(z), Tail(rrs), TRUE, parsed)
                  ELSE xfrd_xfr_check_rrs(counted(z), Tail(rrs), done, parsed)

tsig_unsigned_run_unbounded(z) == FALSE

\* too many consecutive packets without TSIG
tsig_unsigned_run_exceeded(z) ==
  z.tsig.updates_since_last_prepare > XFRD_TSIG_MAX_UNSIGNED

\* no TSIG in the first packet of the reply
tsig_missing_in_first(z, have_tsig) == ~have_tsig /\ z.msg_seq_nr = 0

xfrd_xfr_process_tsig(z, packet) ==
  IF ~tsig_find_rr(packet)
  THEN [ok |-> FALSE, zone |-> z]
  ELSE LET have_tsig == tsig_status(packet) = "TSIG_OK"
           z1 == [z EXCEPT !.tsig = tsig_update(@)]
       IN IF have_tsig
          THEN IF ~tsig_verify(packet)
               THEN [ok |-> FALSE, zone |-> z1]
               ELSE [ok |-> TRUE, zone |-> [z1 EXCEPT !.tsig = tsig_prepare(@)]]
          ELSE IF tsig_unsigned_run_exceeded(z1)
               THEN [ok |-> FALSE, zone |-> z1]
               ELSE IF tsig_missing_in_first(z1, have_tsig)
                    THEN [ok |-> FALSE, zone |-> z1]
                    ELSE [ok |-> TRUE, zone |-> z1]

\* the current serial renews the lease of every zone
lease_renewed_notified(z) == TRUE

\* the current serial is a new lease on the SOA when no NOTIFY is waiting
lease_renewed(z) == z.soa_notified_acquired = 0

\* The first RR of the first packet of a reply (msg_rr_count is 0).  res is
\* "go" when the packet is to be looked at further.
xfrd_parse_first_rr(z, packet, t, rnd) ==
  LET ancount == Len(packet.answer)
      first == xfrd_parse_soa_info(Head(packet.answer))
      soa == first.soa
      result(res, zz) ==
        [res |-> res, zone |-> zz, soa |-> soa, todo |-> Tail(packet.answer)]
  IN IF ~first.ok
     THEN result("bad", z)
     ELSE IF z.soa_disk_acquired # 0 /\ z.state # "expired"
               /\ compare_serial(z.soa_disk.serial, soa.serial) > 0
     THEN result("bad", z)
     ELSE IF z.soa_disk_acquired # 0 /\ z.soa_disk.serial = soa.serial
     THEN IF lease_renewed(z)
          THEN LET z1 == [z EXCEPT !.soa_disk_acquired = t]
                   z2 == IF z1.soa_nsd.serial = soa.serial
                         THEN [z1 EXCEPT !.soa_nsd_acquired = t]
                         ELSE z1
                   z3 == xfrd_set_zone_state(z2, "ok")
               IN result("newlease",
                         xfrd_set_timer_refresh([z3 EXCEPT !.round_num = -1],
                                                t, rnd))
          ELSE result("bad", z)
     ELSE LET z1 == IF ancount = 1
                    THEN xfrd_handle_incoming_notify(z, <<soa>>, t).zone
                    ELSE IF z.soa_notified_acquired # 0
                              /\ z.soa_notified.serial # 0
                              /\ compare_serial(z.soa_notified.serial,
                                                soa.serial) < 0
                         THEN [z EXCEPT !.soa_notified.serial = soa.serial]
                         ELSE z
          IN result("go",
               [z1 EXCEPT !.msg_new_serial = soa.serial,
                          !.msg_rr_count = 1,
                          !.msg_is_ixfr = 0,
                          !.msg_old_serial = IF z1.soa_disk_acquired # 0
                                             THEN z1.soa_disk.serial
                                             ELSE 0])

\* only a reply without answer is short
udp_reply_empty(ancount) == ancount < 1

\* too short to be a real ixfr/axfr data transfer
udp_reply_short(ancount) == ancount < 2

\* soa is the SOA that the caller commits; it is written before it is read
\* on every path that reaches the commit.
xfrd_parse_received_xfr_packet(z, packet, t, rnd) ==
  LET ancount == Len(packet.answer)
      result(res, zz, soa) == [res |-> res, zone |-> zz, soa |-> soa]
      \* after the loop over the RRs
      checked(chk) ==
        IF ~chk.ok
        THEN result("bad", chk.zone, chk.soa)
        ELSE IF chk.zone.tcp_conn = -1 /\ ~chk.done
        THEN result("bad", chk.zone, chk.soa)
        ELSE IF ~chk.done
        THEN result("more", chk.zone, chk.soa)
        ELSE IF Master(chk.zone).key_options
                  /\ chk.zone.tsig.updates_since_last_prepare # 0
        THEN result("bad", chk.zone, chk.soa)
        ELSE result("transfer", chk.zone, chk.soa)
      \* after the first RR
      answered(first) ==
        IF first.res # "go"
        THEN result(first.res, first.zone, first.soa)
        ELSE IF first.zone.tcp_conn = -1 /\ packet.tc
        THEN result("tcp", first.zone, first.soa)
        ELSE IF first.zone.tcp_conn = -1 /\ udp_reply_short(ancount)
        THEN result("tcp", first.zone, first.soa)
        ELSE checked(xfrd_xfr_check_rrs(first.zone, first.todo, FALSE, first.soa))
      \* after the TSIG
      verified(tsig) ==
        IF ~tsig.ok
        THEN result("bad", tsig.zone, soa_zero)
        ELSE IF ~packet.question_ok
        THEN result("bad", tsig.zone, soa_zero)
        ELSE IF ancount = 0
        THEN result("bad", tsig.zone, soa_zero)
        ELSE answered(IF tsig.zone.msg_rr_count = 0
                      THEN xfrd_parse_first_rr(tsig.zone, packet, t, rnd)
                      ELSE [res |-> "go", zone |-> tsig.zone, soa |-> soa_zero,
                            todo |-> packet.answer])
  IN IF ~packet.size_ok
     THEN result("bad", z, soa_zero)
     ELSE IF packet.id # z.query_id
     THEN result("bad", z, soa_zero)
     ELSE IF ~packet.rcode_ok
     THEN result("bad", z, soa_zero)
     ELSE verified(IF Master(z).key_options
                   THEN xfrd_xfr_process_tsig(z, packet)
                   ELSE [ok |-> TRUE, zone |-> z])

xfr_write_part_uncounted(z, log) ==
  [zone |-> z,
   difflog |-> diff_write_packet(log, z.msg_new_serial, z.query_id, z.msg_seq_nr)]

\* dump the reply on disk to the diff file, and count it
xfr_write_part(z, log) ==
  [zone |-> [z EXCEPT !.msg_seq_nr = @ + 1],
   difflog |-> diff_write_packet(log, z.msg_new_serial, z.query_id, z.msg_seq_nr)]

\* every zone with a committed transfer is set to ok
commit_zone_state_ok(z) == xfrd_set_zone_state(z, "ok")

\* do not set expired zone to ok: the zone is not loaded yet
commit_zone_state(z) ==
  IF z.state # "expired" THEN xfrd_set_zone_state(z, "ok") ELSE z

\* The end of a transfer: the commit record, then the disk SOA.  at_commit is
\* the zone at the time the commit record is written.
xfr_commit(z, log, soa, t, rnd) ==
  LET log1 == diff_write_commit(log, z.msg_old_serial, z.msg_new_serial,
                                z.query_id, z.msg_seq_nr, 1)
      z1 == [z EXCEPT !.soa_disk_acquired = t, !.soa_disk = soa]
      z2 == IF z1.soa_notified_acquired # 0
                 /\ (z1.soa_notified.serial = 0
                     \/ compare_serial(z1.soa_disk.serial,
                                       z1.soa_notified.serial) >= 0)
            THEN [z1 EXCEPT !.soa_notified_acquired = 0]
            ELSE z1
  IN IF z2.soa_notified_acquired = 0
     THEN [res |-> "transfer",
           zone |-> xfrd_set_timer_refresh(
                      [commit_zone_state(z2) EXCEPT !.round_num = -1],
                      t, rnd),
           difflog |-> log1, at_commit |-> <<z>>]
     ELSE [res |-> "bad", zone |-> z2, difflog |-> log1, at_commit |-> <<z>>]

\* xfrd_handle_received_xfr_packet that writes a rollback for every rejected
\* packet
xfrd_handle_received_xfr_packet_hasty(z, log, packet, t, rnd) ==
  LET written(part, parsed) ==
        IF parsed.res = "more"
        THEN [res |-> "more", zone |-> part.zone,
              difflog |-> part.difflog, at_commit |-> <<>>]
        ELSE xfr_commit(part.zone, part.difflog, parsed.soa, t, rnd)
      handled(parsed) ==
        IF parsed.res \in {"newlease", "tcp"}
        THEN [res |-> parsed.res, zone |-> parsed.zone, difflog |-> log,
              at_commit |-> <<>>]
        ELSE IF parsed.res = "bad"
        THEN [res |-> "bad", zone |-> parsed.zone,
              difflog |-> diff_write_commit(log, parsed.zone.msg_old_serial,
                                            parsed.zone.msg_new_serial,
                                            parsed.zone.query_id,
                                            parsed.zone.msg_seq_nr, 0),
              at_commit |-> <<>>]
        ELSE written(xfr_write_part(parsed.zone, log), parsed)
  IN handled(xfrd_parse_received_xfr_packet(z, packet, t, rnd))

xfrd_handle_received_xfr_packet(z, log, packet, t, rnd) ==
  LET \* after the reply is dumped to the diff file
      written(part, parsed) ==
        IF parsed.res = "more"
        THEN [res |-> "more", zone |-> part.zone,
              difflog |-> part.difflog, at_commit |-> <<>>]
        ELSE xfr_commit(part.zone, part.difflog, parsed.soa, t, rnd)
      handled(parsed) ==
        IF parsed.res \in {"newlease", "tcp"}
        THEN [res |-> parsed.res, zone |-> parsed.zone, difflog |-> log,
              at_commit |-> <<>>]
        ELSE IF parsed.res = "bad"
        THEN [res |-> "bad", zone |-> parsed.zone,
              difflog |-> IF parsed.zone.msg_seq_nr > 0
                          THEN diff_write_commit(log, parsed.zone.msg_old_serial,
                                                 parsed.zone.msg_new_serial,
                                                 parsed.zone.query_id,
                                                 parsed.zone.msg_seq_nr, 0)
                          ELSE log,
              at_commit |-> <<>>]
        ELSE written(xfr_write_part(parsed.zone, log), parsed)
  IN handled(xfrd_parse_received_xfr_packet(z, packet, t, rnd))

\* ---------------------------------------------- xfrd: SOA reports and NOTIFY
\* no NOTIFY is sent for the zone
xfrd_send_no_notify(z, time) == z

xfrd_send_notify(z, time) ==
  IF z.zone_options.notify = <<>>
  THEN z
  ELSE [z EXCEPT !.notify_retry = 0, !.notify_current = 0,
                 !.notify_enabled = TRUE, !.notify_timeout = time]

\* The reaction to the zone being loaded leaves an expired zone as it is.
soa_loaded_keeps_state(z, time, rnd) ==
  IF time - z.soa_disk_acquired < z.soa_disk.refresh
  THEN xfrd_set_timer_refresh([z EXCEPT !.round_num = -1], time, rnd)
  ELSE xfrd_set_refresh_now(z, time)

\* The state and the timer of a zone whose disk SOA has been loaded by nsd.
soa_loaded(z, time, rnd) ==
  LET z1 == IF time - z.soa_disk_acquired < z.soa_disk.refresh
            THEN xfrd_set_timer_refresh(
                   [xfrd_set_zone_state(z, "ok") EXCEPT !.round_num = -1],
                   time, rnd)
            ELSE IF time - z.soa_disk_acquired < z.soa_disk.expire
            THEN xfrd_set_refresh_now(xfrd_set_zone_state(z, "refreshing"), time)
            ELSE z
  IN IF time - z1.soa_disk_acquired >= z1.soa_disk.expire
     THEN xfrd_set_refresh_now(xfrd_set_zone_state(z1, "expired"), time)
     ELSE z1

\* the notification is answered by the SOA on disk
notified_serial_reached(z) ==
  z.soa_notified_acquired # 0
    /\ (z.soa_notified.serial = 0
        \/ compare_serial(z.soa_disk.serial, z.soa_notified.serial) >= 0)

\* soa is <<>> for the null pointer
xfrd_handle_incoming_soa(z, soa, acquired, time, rnd) ==
  IF soa = <<>>
  THEN xfrd_set_refresh_now(
         xfrd_set_zone_state([z EXCEPT !.soa_nsd_acquired = 0], "refreshing"),
         time)
  ELSE IF z.soa_nsd_acquired # 0 /\ soa[1].serial = z.soa_nsd.serial
  THEN z
  ELSE IF z.soa_disk_acquired # 0 /\ soa[1].serial = z.soa_disk.serial
  THEN LET z1 == [z EXCEPT !.soa_nsd = z.soa_disk,
                           !.soa_nsd_acquired = z.soa_disk_acquired]
           z2 == soa_loaded(z1, time, rnd)
           z3 == IF notified_serial_reached(z2)
                 THEN [z2 EXCEPT !.soa_notified_acquired = 0]
                 ELSE z2
           z4 == IF z3.soa_notified_acquired # 0 /\ z3.state = "ok"
                 THEN xfrd_set_refresh_now(
                        xfrd_set_zone_state(z3, "refreshing"), time)
                 ELSE z3
       IN xfrd_send_notify(z4, time)
  ELSE LET z1 == [z EXCEPT !.soa_nsd = soa[1], !.soa_disk = soa[1],
                           !.soa_nsd_acquired = acquired,
                           !.soa_disk_acquired = acquired]
           z2 == IF notified_serial_reached(z1)
                 THEN [z1 EXCEPT !.soa_notified_acquired = 0]
                 ELSE z1
       IN xfrd_send_notify(
            xfrd_set_refresh_now(xfrd_set_zone_state(z2, "refreshing"), time),
            time)

\* acl_same_host: the two entries name the same host
acl_same_host(a, b) == a.host = b.host

RECURSIVE find_same_master(_, _, _)
find_same_master(nfy_acl, request_xfr, num) ==
  IF num >= Len(request_xfr) THEN -1
  ELSE IF acl_same_host(nfy_acl, request_xfr[num + 1]) THEN num
  ELSE find_same_master(nfy_acl, request_xfr, num + 1)

\* no NOTIFY is taken to come from a master
find_no_master_notify(z, acl_num_nfy) == -1

find_same_master_notify(z, acl_num_nfy) ==
  IF acl_num_nfy < 0 \/ acl_num_nfy >= Len(z.zone_options.allow_notify)
  THEN -1
  ELSE find_same_master(z.zone_options.allow_notify[acl_num_nfy + 1],
                        z.zone_options.request_xfr, 0)

\* the notified zone is left to its timer
notify_without_refresh(z, r, time) == r.zone

\* the transfer is to be made right away
notify_refresh(z, r, time) ==
  IF r.res = 1 THEN xfrd_set_refresh_now(r.zone, time) ELSE r.zone

\* A NOTIFY for the zone, passed on by a server process: soa is the SOA of
\* its answer section, <<>> when there is none or not exactly one RR.
xfrd_handle_passed_packet(z, soa, acl_num, time) ==
  LET passed(z1, next) ==
        IF next # -1 THEN [z1 EXCEPT !.next_master = next] ELSE z1
  IN passed(notify_refresh(z, xfrd_handle_incoming_notify(z, soa, time), time),
            find_same_master_notify(z, acl_num))

xfrd_notify_disable(z) ==
  [z EXCEPT !.notify_current = -1, !.notify_fd = -1, !.notify_enabled = FALSE]

\* packet: [opcode_ok, id, rcode]; opcode_ok: the opcode is NOTIFY and QR is
\* set
xfrd_handle_notify_reply(z, packet) ==
  IF ~packet.opcode_ok THEN FALSE
  ELSE IF packet.id # z.notify_query_id THEN FALSE
  ELSE IF packet.rcode # "OK" THEN packet.rcode = "IMPL"
  ELSE TRUE

xfrd_notify_next(z) ==
  LET next == IF z.notify_current + 1 < Len(z.zone_options.notify)
              THEN z.notify_current + 1 ELSE -1
      z1 == [z EXCEPT !.notify_current = next, !.notify_retry = 0]
  IN IF next = -1 THEN xfrd_notify_disable(z1) ELSE z1

\* sent: the NOTIFY went out and notify_send_handler.fd is its socket
xfrd_notify_send_udp(z, sent, time) ==
  [z EXCEPT !.notify_timeout = time + XFRD_NOTIFY_RETRY_TIMOUT,
            !.notify_query_id = @ + 1,
            !.notify_fd = IF sent THEN 1 ELSE -1]

\* max notify send count reached
notify_retries_done(z) == z.notify_retry > XFRD_NOTIFY_MAX_NUM

\* event is "read" or "timeout".  On a read event the packet is read from
\* zone_handler.fd, the socket of the zone's own request: read is <<>> when
\* nothing can be read there, and <<packet>> with what was read.
xfrd_handle_notify_send(z, event, read, sent, time) ==
  LET again(z1) ==
        IF z1.notify_current # -1
        THEN xfrd_notify_send_udp(z1, sent, time)
        ELSE z1
  IN IF event = "read"
     THEN IF read # <<>> /\ xfrd_handle_notify_reply(z, read[1])
          THEN again(xfrd_notify_next(z))
          ELSE again(z)
     ELSE again(IF notify_retries_done([z EXCEPT !.notify_retry = @ + 1])
                THEN xfrd_notify_next([z EXCEPT !.notify_retry = @ + 1])
                ELSE [z EXCEPT !.notify_retry = @ + 1])

\* ----------------------------------------------------------------- actions
\* the number of RRsets held in the whole table
RECURSIVE SumOver(_, _)
SumOver(S, f) ==
  IF S = {} THEN 0
  ELSE LET x == CHOOSE y \in S : TRUE IN f[x] + SumOver(S \ {x}, f)

LoadOf(t) ==
  SumOver(t.nametree, [n \in t.nametree |-> Len(t.dom[n].rrsets)])

\* the names that an insert of dname would add to the tree
Missing(t, dname) ==
  {n \in {SubSeq(dname, 1, k) : k \in 1..Len(dname)} : n \notin t.nametree}

\* ------------------------------------------------- remote control (remote.c)
\* A control connection is a struct rc_state, named by a number; 0 is the
\* null pointer.  busy_list is the list that next and prev link, head first;
\* stats_list is the head of the list that stats_next links.  Writes to the
\* peer are taken to succeed.  The build has BIND8_STATS.

\* the zones of the options: 1 is defined in nsd.conf, 2 is not
ConfZone == 1
DynZone == 2

\* the patterns of nsd.conf, and whether their zones are secondary zones
Patterns == {"master", "slave"}
pattern_is_slave(pname) == pname = "slave"

\* xfrd's side of the control channel before any command: the zone of
\* nsd.conf is a secondary zone with a notify entry, the task list is empty
xfrd_control_init ==
  [need_to_send_shutdown |-> FALSE,
   need_to_send_reload |-> FALSE,
   tasks |-> <<>>,
   zone_options |-> [z \in {ConfZone} |-> [part_of_config |-> TRUE, pname |-> "slave"]],
   zones |-> {ConfZone},
   notify_zones |-> {ConfZone}]

\* daemon_remote_create: no connection; of the limit of 10 active
\* connections the model keeps MaxActive
daemon_remote_create ==
  [active |-> 0,
   max_active |-> MaxActive,
   busy_list |-> <<>>,
   stats_list |-> 0,
   conn |-> <<>>,
   xfrd |-> xfrd_control_init,
   last |-> [op |-> "create", s |-> 0, how |-> "",
             req |-> [cmd |-> "", arg |-> 0, arg2 |-> "", fail |-> FALSE],
             reply |-> <<>>, printed |-> <<>>, crashed |-> FALSE]]

\* daemon_remote_close: every busy connection is freed; stats_list is left
daemon_remote_close(r) ==
  [r EXCEPT !.busy_list = <<>>, !.active = 0,
            !.conn = [i \in {} |-> 0],
            !.last = [@ EXCEPT !.op = "close", !.s = 0, !.how = "",
                               !.req = [cmd |-> "", arg |-> 0, arg2 |-> "", fail |-> FALSE],
                               !.reply = <<>>, !.printed = <<>>]]

\* s->next of a connection of the busy list
busy_next(r, s) ==
  LET at == CHOOSE i \in 1..Len(r.busy_list) : r.busy_list[i] = s
  IN IF at = Len(r.busy_list) THEN 0 ELSE r.busy_list[at + 1]

state_list_remove_elem(list, todel) ==
  SelectSeq(list, LAMBDA x : x # todel)

\* the connections that the stats_next links reach from p, first first
RECURSIVE stats_chain(_, _)
stats_chain(r, p) ==
  IF p = 0 THEN <<>> ELSE <<p>> \o stats_chain(r, r.conn[p].stats_next)

stats_list_remove_elem(r, todel) ==
  LET chain == stats_chain(r, r.stats_list)
  IN IF r.stats_list = todel
     THEN [r EXCEPT !.stats_list = r.conn[todel].stats_next]
     ELSE IF \E i \in 2..Len(chain) : chain[i] = todel
     THEN LET i == CHOOSE j \in 2..Len(chain) : chain[j] = todel
          IN [r EXCEPT !.conn[chain[i - 1]].stats_next = r.conn[todel].stats_next]
     ELSE r

\* clean_point: the connection leaves the lists and is closed and freed
clean_point(r, s) ==
  LET r1 == IF r.conn[s].in_stats_list # 0 THEN stats_list_remove_elem(r, s) ELSE r
  IN [r1 EXCEPT !.busy_list = state_list_remove_elem(r1.busy_list, s),
                !.active = r1.active - 1,
                !.conn = [i \in DOMAIN r1.conn \ {s} |-> r1.conn[i]]]

xfrd_set_reload_now(x) == [x EXCEPT !.need_to_send_reload = TRUE]

task_new(x, type, z, pname) ==
  [x EXCEPT !.tasks = Append(@, [task_type |-> type, zname |-> z, pname |-> pname])]

\* a line written to the peer: the word it begins with, and the rest
Line(head, text) == [head |-> head, text |-> text]

\* what a command does: the state after it and the lines it wrote
Done(r, reply) == [rc |-> r, reply |-> reply, crashed |-> FALSE]

send_ok(r) == Done(r, <<Line("ok", "")>>)

\* get_zone_arg: 0 is the empty argument, -1 a name that does not parse
get_zone_arg(r, arg) ==
  IF arg = 0 THEN [ok |-> TRUE, zo |-> 0, reply |-> <<>>]
  ELSE IF arg = -1 THEN [ok |-> FALSE, zo |-> 0, reply |-> <<Line("error", "cannot parse zone name")>>]
  ELSE IF arg \notin DOMAIN r.xfrd.zone_options
  THEN [ok |-> FALSE, zo |-> 0, reply |-> <<Line("error", "zone not configured")>>]
  ELSE [ok |-> TRUE, zo |-> arg, reply |-> <<>>]

do_stop(r) == send_ok([r EXCEPT !.xfrd.need_to_send_shutdown = TRUE])

do_log_reopen(r) == send_ok([r EXCEPT !.xfrd = xfrd_set_reload_now(@)])

\* do_reload reads zo->node.key also when get_zone_arg gave the null
\* pointer: the read of the null zone stops the process or yields some
\* value, which ub chooses
ReloadOutcomes == {"crash", "value"}

do_reload(r, arg, ub) ==
  LET za == get_zone_arg(r, arg)
      key == IF za.zo # 0 THEN za.zo ELSE -1
  IN IF ~za.ok THEN Done(r, za.reply)
     ELSE IF za.zo = 0 /\ ub = "crash"
     THEN [rc |-> r, reply |-> <<>>, crashed |-> TRUE]
     ELSE send_ok([r EXCEPT !.xfrd =
            xfrd_set_reload_now(task_new(@, "check_zonefiles", key, ""))])

\* do_verbosity that takes any argument for a number
do_verbosity_lenient(r, arg) ==
  send_ok([r EXCEPT !.xfrd =
    xfrd_set_reload_now(task_new(@, "set_verbosity", arg, ""))])

\* verbosity: -1 is an argument that is no number
do_verbosity(r, arg) ==
  IF arg = -1 THEN Done(r, <<Line("error", "in verbosity number syntax")>>)
  ELSE send_ok([r EXCEPT !.xfrd =
         xfrd_set_reload_now(task_new(@, "set_verbosity", arg, ""))])

do_status(r) == Done(r, <<Line("version:", ""), Line("verbosity:", "")>>)

\* do_stats: the connection waits in stats_list for the next reload; peek
\* is stats_noreset
do_stats(r, s, peek) ==
  Done([r EXCEPT !.conn[s].in_stats_list = IF peek THEN 2 ELSE 1,
                 !.conn[s].stats_next = r.stats_list,
                 !.conn[s].event_types = "none",
                 !.stats_list = s,
                 !.xfrd = xfrd_set_reload_now(@)], <<>>)

\* zone_list_add: the zone enters the zone list, unless it is there or
\* the list cannot be written
zone_list_add(x, z, pname, fail) ==
  IF fail \/ z \in DOMAIN x.zone_options THEN [ok |-> FALSE, xfrd |-> x]
  ELSE [ok |-> TRUE,
        xfrd |-> [x EXCEPT !.zone_options =
                    [n \in DOMAIN @ \cup {z} |->
                       IF n = z THEN [part_of_config |-> FALSE, pname |-> pname]
                       ELSE @[n]]]]

zone_list_del(x, z) ==
  [x EXCEPT !.zone_options = [n \in DOMAIN @ \ {z} |-> @[n]]]

\* do_addzone that makes the task and schedules the reload before it
\* looks at what zone_list_add gave
do_addzone_eager(r, arg, arg2, fail) ==
  IF arg2 = "" THEN Done(r, <<Line("error", "could not find next argument")>>)
  ELSE IF arg2 \notin Patterns THEN Done(r, <<Line("error", "pattern does not exist")>>)
  ELSE IF arg = -1 THEN Done(r, <<Line("error", "cannot parse zone name")>>)
  ELSE LET added == zone_list_add(r.xfrd, arg, arg2, fail)
           x1 == xfrd_set_reload_now(task_new(added.xfrd, "add_zone", arg, arg2))
           x2 == [x1 EXCEPT !.notify_zones = @ \cup {arg}]
           x3 == IF pattern_is_slave(arg2)
                 THEN [x2 EXCEPT !.zones = @ \cup {arg}] ELSE x2
       IN IF ~added.ok
          THEN Done([r EXCEPT !.xfrd = x1], <<Line("error", "could not add zonelist entry")>>)
          ELSE send_ok([r EXCEPT !.xfrd = x3])

\* do_addzone: arg2 "" is a missing second argument
do_addzone(r, arg, arg2, fail) ==
  IF arg2 = "" THEN Done(r, <<Line("error", "could not find next argument")>>)
  ELSE IF arg2 \notin Patterns THEN Done(r, <<Line("error", "pattern does not exist")>>)
  ELSE IF arg = -1 THEN Done(r, <<Line("error", "cannot parse zone name")>>)
  ELSE LET added == zone_list_add(r.xfrd, arg, arg2, fail)
           x1 == xfrd_set_reload_now(task_new(added.xfrd, "add_zone", arg, arg2))
           x2 == [x1 EXCEPT !.notify_zones = @ \cup {arg}]
           x3 == IF pattern_is_slave(arg2)
                 THEN [x2 EXCEPT !.zones = @ \cup {arg}] ELSE x2
       IN IF ~added.ok THEN Done(r, <<Line("error", "could not add zonelist entry")>>)
          ELSE send_ok([r EXCEPT !.xfrd = x3])

do_delzone(r, arg) ==
  IF arg = -1 THEN Done(r, <<Line("error", "cannot parse zone name")>>)
  ELSE IF arg \notin DOMAIN r.xfrd.zone_options
  THEN Done(r, <<Line("warning", "zone not present"), Line("ok", "")>>)
  ELSE IF r.xfrd.zone_options[arg].part_of_config
  THEN Done(r, <<Line("error", "zone defined in nsd.conf, cannot delete it")>>)
  ELSE LET x1 == xfrd_set_reload_now(task_new(r.xfrd, "del_zone", arg, ""))
           x2 == [x1 EXCEPT !.zones = @ \ {arg}, !.notify_zones = @ \ {arg}]
       IN send_ok([r EXCEPT !.xfrd = zone_list_del(x2, arg)])

\* execute_cmd: the command of connection s
execute_cmd(r, s, req, ub) ==
  CASE req.cmd = "stop" -> do_stop(r)
    [] req.cmd = "reload" -> do_reload(r, req.arg, ub)
    [] req.cmd = "status" -> do_status(r)
    [] req.cmd = "stats_noreset" -> do_stats(r, s, TRUE)
    [] req.cmd = "stats" -> do_stats(r, s, FALSE)
    [] req.cmd = "log_reopen" -> do_log_reopen(r)
    [] req.cmd = "addzone" -> do_addzone(r, req.arg, req.arg2, req.fail)
    [] req.cmd = "delzone" -> do_delzone(r, req.arg)
    [] req.cmd = "verbosity" -> do_verbosity(r, req.arg)
    [] OTHER -> Done(r, <<Line("error", "unknown command")>>)

\* handle_req: a request without the magic header gets no answer, one of
\* another version an error
handle_req(r, s, req, ub) ==
  IF req.cmd = "bad magic" THEN Done(r, <<>>)
  ELSE IF req.cmd = "bad version" THEN Done(r, <<Line("error", "version mismatch")>>)
  ELSE execute_cmd(r, s, req, ub)

\* remote_control_callback: ev is the timeout, or what SSL_do_handshake and
\* the check of the peer's certificate gave
remote_control_callback(r, s, ev, req, ub) ==
  IF ev = "timeout" THEN Done(clean_point(r, s), <<>>)
  ELSE IF ev = "want_read"
  THEN Done([r EXCEPT !.conn[s].shake_state = "rc_hs_read",
                      !.conn[s].event_types = "read"], <<>>)
  ELSE IF ev = "want_write"
  THEN Done([r EXCEPT !.conn[s].shake_state = "rc_hs_write",
                      !.conn[s].event_types = "write"], <<>>)
  ELSE IF ev \in {"handshake failed", "not authorized"}
  THEN Done(clean_point(r, s), <<>>)
  ELSE LET h == handle_req([r EXCEPT !.conn[s].shake_state = "rc_none"], s, req, ub)
       IN IF h.crashed THEN h
          ELSE IF h.rc.conn[s].in_stats_list = 0
          THEN Done(clean_point(h.rc, s), h.reply)
          ELSE h

\* no zone is read, no query has come
QueryQuiet ==
  /\ dbzone = [number |-> 0]
  /\ prehashed = <<>>
  /\ db = <<>>
  /\ query = [op |-> "none"]
  /\ rc = daemon_remote_create

\* the table after domain_table_create
TableCreated ==
  /\ table = domain_table_create
  /\ removed = {}
  /\ QueryQuiet

\* The outcomes of an insert: one, unless the table holds a pointer into
\* recycled memory.
UBOutcomes(t) ==
  IF \E n \in t.nametree : t.dom[n].wildcard_child_closest_match = DANGLING
  THEN UB ELSE {"greater"}

InsertAllowed(t, dname, bound) ==
  Cardinality(t.nametree) + Cardinality(Missing(t, dname)) <= bound

Insert(dname, ub, bound) ==
  /\ InsertAllowed(table, dname, bound)
  /\ table' = domain_table_insert(table, dname, ub).table

Deldomain(domain) ==
  table' = domain_table_deldomain(table, domain)

AddRRset(domain, rrset) ==
  /\ LoadOf(table) < MaxRRsets
  /\ table' = domain_add_rrset(table, domain, rrset)

\* any sequence of inserts and deletes
NdbNext ==
  \/ \E dname \in Names : \E ub \in UBOutcomes(table) :
       Insert(dname, ub, MaxDomains) /\ UNCHANGED removed /\ UNCHANGED <<xfrvars, qvars>>
  \/ \E domain \in table.nametree :
       Deldomain(domain) /\ UNCHANGED removed /\ UNCHANGED <<xfrvars, qvars>>

\* any sequence of inserts, added RRsets and deletes
RRNext ==
  \/ \E dname \in Names : \E ub \in UBOutcomes(table) :
       Insert(dname, ub, MaxRRDomains) /\ removed' = {} /\ UNCHANGED <<xfrvars, qvars>>
  \/ \E domain \in table.nametree :
       /\ Deldomain(domain)
       /\ removed' = table.nametree \ table'.nametree
       /\ UNCHANGED <<xfrvars, qvars>>
  \/ \E domain \in table.nametree, rrset \in RRTypes :
       AddRRset(domain, rrset) /\ removed' = {} /\ UNCHANGED <<xfrvars, qvars>>

\* ------------------------------------------------------------ xfrd actions
\* The masters of the zone: one master without a TSIG key, asked for IXFR
\* first or for AXFR only.
MasterLists ==
  {<<[key_options |-> FALSE, use_axfr_only |-> a]>> : a \in BOOLEAN}

\* what the observer holds before the first packet of a reply
ObsIdle ==
  [res |-> "none", commit |-> FALSE, tsig |-> "none", first_signed |-> FALSE,
   run |-> 0, prev_run |-> 0, parts |-> 0, announced |-> 0,
   disk0 |-> [soa_disk |-> soa_zero, soa_disk_acquired |-> 0],
   at_commit |-> <<>>, notify_sent |-> 0]

\* The observer sees the packets of a reply and what the handler returns:
\*   res, commit   the result for the last packet; a commit record with the
\*                 committed flag was written for it
\*   tsig          the TSIG of the last packet, when the master has a key
\*   first_signed  the first packet of the reply carried a valid TSIG
\*   run, prev_run the packets since the last valid TSIG, with and without
\*                 the last packet
\*   parts         the packets of the reply that were not rejected
\*   announced     the serial of the SOA that begins the reply
\*   disk0         soa_disk and soa_disk_acquired when the reply began
\*   at_commit     the same two when the commit record was written
\*   notify_sent   the NOTIFY packets sent to notify_current in this round
Observe(o, z, packet, r) ==
  LET first == o.parts = 0
      signed == packet.tsig = "valid"
      begins == packet.answer # <<>> /\ Head(packet.answer).type = "SOA"
  IN [res |-> r.res,
      commit |-> r.at_commit # <<>>,
      tsig |-> IF Master(z).key_options THEN packet.tsig ELSE "none",
      first_signed |-> IF first THEN signed ELSE o.first_signed,
      run |-> IF signed THEN 0 ELSE o.run + 1,
      prev_run |-> o.run,
      parts |-> IF r.res = "more" \/ r.at_commit # <<>>
                THEN o.parts + 1 ELSE o.parts,
      announced |-> IF first
                    THEN IF begins THEN Head(packet.answer).serial ELSE 0
                    ELSE o.announced,
      disk0 |-> IF first
                THEN [soa_disk |-> z.soa_disk,
                      soa_disk_acquired |-> z.soa_disk_acquired]
                ELSE o.disk0,
      at_commit |-> IF r.at_commit = <<>> THEN <<>>
                    ELSE <<[soa_disk |-> r.at_commit[1].soa_disk,
                            soa_disk_acquired |-> r.at_commit[1].soa_disk_acquired]>>,
      notify_sent |-> 0]

Reply(z, answer, tsig, tc) ==
  [size_ok |-> TRUE, id |-> z.query_id, rcode_ok |-> TRUE,
   question_ok |-> TRUE, tc |-> tc, tsig |-> tsig, answer |-> answer]

\* The packets that may arrive for the request of z, on its TCP connection
\* (tcp) or on its UDP socket.  Every answer section of up to MaxAnswer RRs
\* arrives under a header that passes, with and without a valid TSIG.  What
\* the handler does not read takes one value: the TSIG when the master has
\* no key, the TC bit on TCP, the RRs after the first under a TC bit on
\* UDP, and the answer section of a packet that is rejected for its header
\* or its TSIG.
Packets(z, tcp) ==
  IF z.master = -1 \/ z.fd = -1 \/ (z.tcp_conn # -1) # tcp THEN {} ELSE
  LET key == Master(z).key_options
      kinds == IF key THEN {"none", "valid"} ELSE {"none"}
      passing == Reply(z, <<SoaRR(3)>>,
                       IF key THEN "valid" ELSE "none", FALSE)
  IN {Reply(z, a, k, FALSE) : a \in Answers(MaxAnswer), k \in kinds}
       \cup (IF z.tcp_conn = -1
             THEN {Reply(z, a, k, TRUE) : a \in Answers(1), k \in kinds}
             ELSE {})
       \cup (IF key
             THEN {[passing EXCEPT !.tsig = "malformed"],
                   [passing EXCEPT !.tsig = "badsig"]}
             ELSE {})
       \cup {[passing EXCEPT !.size_ok = FALSE],
             [passing EXCEPT !.id = 0],
             [passing EXCEPT !.rcode_ok = FALSE],
             [passing EXCEPT !.question_ok = FALSE]}

\* The packets of a reply from a master with a key, with every kind of
\* TSIG: on TCP a long AXFR stream of one RR a packet, an SOA of serial 3 or
\* another RR; on UDP that SOA alone, or twice.
StreamPackets(z, tcp) ==
  IF z.fd = -1 \/ (z.tcp_conn # -1) # tcp THEN {} ELSE
  LET soa == SoaRR(3)
      answers == IF tcp THEN {<<soa>>, <<OtherRR>>}
                 ELSE {<<soa>>, <<soa, soa>>}
  IN {Reply(z, a, k, FALSE) : a \in answers, k \in TsigKinds}

XfrInit ==
  /\ TableCreated
  /\ \E request_xfr \in MasterLists :
       \E dbsoa \in {<<>>, <<Soa(2)>>} :
         zone = xfrd_init_zone(Masters(request_xfr), dbsoa, 1)
  /\ difflog = <<>>
  /\ now = 1
  /\ pc = "run"
  /\ obs = ObsIdle

\* xfrd has one zone and nothing has happened to it
XfrQuiet ==
  /\ zone = xfrd_init_zone(
              Masters(<<[key_options |-> FALSE, use_axfr_only |-> FALSE]>>),
              <<>>, 1)
  /\ difflog = <<>>
  /\ now = 1
  /\ pc = "run"
  /\ obs = ObsIdle

\* a zone whose master has a key, after its first request
TsigInit ==
  /\ TableCreated
  /\ \E dbsoa \in {<<>>, <<Soa(2)>>} :
       zone = xfrd_make_request(
                xfrd_init_zone(
                  Masters(<<[key_options |-> TRUE, use_axfr_only |-> FALSE]>>),
                  dbsoa, 1),
                TRUE, 1, <<0, 0>>)
  /\ difflog = <<>>
  /\ now = 1
  /\ pc = "run"
  /\ obs = ObsIdle

\* The zone timer fires: the clock moves on to the second the timer is set
\* to, when that is still to come.
ZoneTimeout(requests) ==
  /\ pc = "run"
  /\ zone.query_id < requests
  /\ now' = IF zone.timeout > now THEN zone.timeout ELSE now
  /\ zone' = xfrd_handle_zone(zone, now')
  /\ pc' = "make_request"
  /\ obs' = ObsIdle
  /\ UNCHANGED <<difflog, table, removed, qvars>>

\* the call of xfrd_make_request that ends a handler
MakeRequest(sent, rnd, requests) ==
  /\ pc = "make_request"
  /\ zone.query_id < requests
  /\ zone' = xfrd_make_request(zone, sent, now, rnd)
  /\ pc' = "run"
  /\ obs' = ObsIdle
  /\ UNCHANGED <<difflog, now, table, removed, qvars>>

\* xfrd_udp_read, when no datagram can be read
UdpReadError ==
  /\ pc = "run"
  /\ zone.tcp_conn = -1
  /\ zone.fd # -1
  /\ zone' = [xfrd_set_refresh_now(zone, now) EXCEPT !.fd = -1]
  /\ UNCHANGED <<difflog, now, pc, obs, table, removed, qvars>>

\* xfrd_udp_read of a reply
UdpRead(packet, rnd) ==
  /\ pc = "run"
  /\ zone.tcp_conn = -1
  /\ zone.fd # -1
  /\ \E z0 \in {[xfrd_set_refresh_now(zone, now) EXCEPT !.fd = -1]} :
     \E r \in {xfrd_handle_received_xfr_packet(z0, difflog, packet, now, rnd)} :
        /\ zone' = IF r.res = "tcp"
                   THEN xfrd_tcp_obtain(
                          xfrd_set_timer(r.zone, now + XFRD_TCP_TIMEOUT, now, rnd))
                   ELSE r.zone
        /\ difflog' = r.difflog
        /\ pc' = IF r.res \in {"tcp", "transfer", "newlease"}
                 THEN "run" ELSE "make_request"
        /\ obs' = IF r.res = "tcp"
                  THEN [ObsIdle EXCEPT !.res = "tcp"]
                  ELSE Observe(obs, z0, packet, r)
  /\ UNCHANGED <<now, table, removed, qvars>>

\* xfrd_tcp_read of a complete message; the stream has at most parts
\* messages
TcpRead(packet, parts, rnd) ==
  /\ pc = "run"
  /\ zone.tcp_conn # -1
  /\ zone.msg_seq_nr < parts
  /\ \E r \in {xfrd_handle_received_xfr_packet(
                  xfrd_set_timer(zone, now + XFRD_TCP_TIMEOUT, now, rnd),
                  difflog, packet, now, rnd)} :
        /\ zone' = IF r.res = "more" THEN r.zone ELSE xfrd_tcp_release(r.zone)
        /\ difflog' = r.difflog
        /\ pc' = IF r.res \in {"more", "transfer", "newlease"}
                 THEN "run" ELSE "make_request"
        /\ obs' = Observe(obs, zone, packet, r)
  /\ UNCHANGED <<now, table, removed, qvars>>

\* the requests of a zone and their replies; random() returns 0
XfrNext ==
  \/ ZoneTimeout(MaxRequests)
  \/ \E sent \in BOOLEAN : MakeRequest(sent, <<0, 0>>, MaxRequests)
  \/ UdpReadError
  \/ \E packet \in Packets(zone, FALSE) : UdpRead(packet, <<0, 0>>)
  \/ \E packet \in Packets(zone, TRUE) :
       TcpRead(packet, MaxParts, <<0, 0>>)

\* one reply from a master with a key; random() returns 0
TsigNext ==
  \/ \E packet \in StreamPackets(zone, FALSE) :
       UdpRead(packet, <<0, 0>>)
  \/ \E packet \in StreamPackets(zone, TRUE) :
       TcpRead(packet, MaxSignedParts, <<0, 0>>)

\* nsd reports the SOA it has just loaded for the zone (soa_info over IPC);
\* the report comes delay seconds after the last event,
\* before the zone timer fires; time passes so in the first MaxDelay seconds
\* after the start of xfrd, at second 1
IncomingSoa(soa, delay, rnd) ==
  /\ pc = "run"
  /\ delay > 0 =>
       /\ now + delay <= zone.timeout
       /\ now + delay <= 1 + MaxDelay
  /\ now' = now + delay
  /\ zone' = xfrd_handle_incoming_soa(zone, soa, now', now', rnd)
  /\ obs' = [ObsIdle EXCEPT !.res = "soa"]
  /\ UNCHANGED <<difflog, pc, table, removed, qvars>>

\* a server process passes a NOTIFY on, which came from entry acl_num of the
\* allow_notify list
PassedPacket(soa, acl_num) ==
  /\ pc = "run"
  /\ zone' = xfrd_handle_passed_packet(zone, soa, acl_num, now)
  /\ obs' = [ObsIdle EXCEPT !.res = "notify"]
  /\ UNCHANGED <<difflog, now, pc, table, removed, qvars>>

\* The options of a zone with MaxMasters masters, host i at place i - 1 of the
\* list, that allows NOTIFY from its masters, last master first, and from a
\* host 0 that is no master, and sends NOTIFY to one host.
ZoneOptions ==
  [request_xfr |->
     [i \in 1..MaxMasters |->
        [host |-> i, key_options |-> FALSE, use_axfr_only |-> FALSE]],
   allow_notify |->
     [i \in 1..(MaxMasters + 1) |-> [host |-> MaxMasters + 1 - i]],
   notify |-> <<[host |-> 0, key_options |-> FALSE]>>]

ZoneInit ==
  /\ TableCreated
  /\ \E dbsoa \in {<<>>, <<Soa(2)>>} :
       zone = xfrd_init_zone(ZoneOptions, dbsoa, 1)
  /\ difflog = <<>>
  /\ now = 1
  /\ pc = "run"
  /\ obs = ObsIdle

\* The answer sections of the replies to a request of the zone: none, one RR
\* that is no SOA, one SOA, and a whole AXFR of three RRs.
ZoneAnswers ==
  {<<>>, <<OtherRR>>}
    \cup {<<SoaRR(s)>> : s \in Serials}
    \cup {<<SoaRR(s), OtherRR, SoaRR(s)>> : s \in Serials}

\* The replies to a request of the zone: each of these answers, with and
\* without the TC bit on UDP, and a reply with an error RCODE.
ZonePackets(z, tcp) ==
  IF z.master = -1 \/ z.fd = -1 \/ (z.tcp_conn # -1) # tcp THEN {} ELSE
  {Reply(z, answer, "none", tc) :
     answer \in ZoneAnswers, tc \in IF tcp THEN {FALSE} ELSE BOOLEAN}
    \cup {[Reply(z, <<SoaRR(3)>>, "none", FALSE) EXCEPT !.rcode_ok = FALSE]}

\* requests of a zone that is followed through its states
ZoneRequests == MaxRequests + 1

\* timers, requests and replies for one zone, with these outcomes of
\* random() and at most so many requests
ZoneSteps(randoms, requests) ==
  \/ ZoneTimeout(requests)
  \/ \E rnd \in randoms : MakeRequest(TRUE, rnd, requests)
  \/ \E packet \in ZonePackets(zone, FALSE), rnd \in randoms :
       UdpRead(packet, rnd)
  \/ \E packet \in ZonePackets(zone, TRUE), rnd \in randoms :
       TcpRead(packet, MaxParts, rnd)

ZoneNext == ZoneSteps(Randoms, ZoneRequests)

\* the answer section of a NOTIFY: no SOA, the SOA that a zone with data has
\* on disk, or a newer one
NotifySoas == {<<>>, <<Soa(2)>>, <<Soa(3)>>}

\* the same with NOTIFY for the zone, from the last master of the list or
\* from the host that is no master; random() returns 0
NotifiedNext ==
  \/ ZoneSteps({<<0, 0>>}, MaxRequests)
  \/ \E soa \in NotifySoas, acl_num \in {0, MaxMasters} :
       PassedPacket(soa, acl_num)

\* what nsd reports to have loaded: an SOA other than that of the database
LoadedSoas == {<<Soa(1)>>, <<Soa(3)>>}

\* the replies over UDP that a report of nsd follows: one SOA, or a whole
\* transfer of three RRs
LoadedPackets(z) ==
  IF z.master = -1 \/ z.fd = -1 \/ z.tcp_conn # -1 THEN {} ELSE
  {Reply(z, <<SoaRR(soa[1].serial)>>, "none", FALSE) : soa \in LoadedSoas}
    \cup {Reply(z, <<SoaRR(soa[1].serial), OtherRR, SoaRR(soa[1].serial)>>,
                 "none", FALSE) : soa \in LoadedSoas}

\* timers, requests and replies over UDP with the reports of nsd, and NOTIFY
\* of serial 3 from the host that is no master; random() returns 0
LoadedNext ==
  \/ ZoneTimeout(ZoneRequests)
  \/ MakeRequest(TRUE, <<0, 0>>, ZoneRequests)
  \/ \E packet \in LoadedPackets(zone) : UdpRead(packet, <<0, 0>>)
  \/ PassedPacket(<<Soa(3)>>, MaxMasters)
  \/ \E soa \in LoadedSoas, delay \in 0..MaxDelay :
       IncomingSoa(soa, delay, <<0, 0>>)

\* A zone with one to MaxMasters masters, all asked the same way, none of
\* which ever replies: the zone timer fires and the next request is made.
RoundsLists ==
  {[i \in 1..n |-> [key_options |-> FALSE, use_axfr_only |-> a]] :
     n \in 1..MaxMasters, a \in BOOLEAN}

RoundsInit ==
  /\ TableCreated
  /\ \E request_xfr \in RoundsLists :
       \E dbsoa \in {<<>>, <<Soa(2)>>} :
         zone = xfrd_init_zone(Masters(request_xfr), dbsoa, 1)
  /\ difflog = <<>>
  /\ now = 1
  /\ pc = "run"
  /\ obs = ObsIdle

\* requests enough for the rounds, the wait and the first request after it
RoundsRequests == XFRD_MAX_ROUNDS * MaxMasters + 2

RoundsNext ==
  \/ ZoneTimeout(RoundsRequests)
  \/ \E sent \in BOOLEAN, rnd \in Randoms :
       MakeRequest(sent, rnd, RoundsRequests)

\* masters that never reply, and NOTIFY for the zone, with an SOA or without;
\* random() returns 0
RoundsNotifiedNext ==
  \/ ZoneTimeout(RoundsRequests)
  \/ MakeRequest(TRUE, <<0, 0>>, RoundsRequests)
  \/ \E soa \in {<<>>, <<Soa(3)>>}, acl_num \in 0..MaxMasters :
       PassedPacket(soa, acl_num)

\* The NOTIFY packets that notify_current has got in this round, after a call
\* of the notify send handler that took the zone from z to z1.
notify_sent_after(o, z, z1, sent) ==
  LET one == IF sent /\ z1.notify_current # -1 THEN 1 ELSE 0
  IN [o EXCEPT !.res = "notify_send",
               !.notify_sent = IF z1.notify_current # z.notify_current
                               THEN one ELSE @ + one]

\* The timeout of the notify send handler fires; sent: the NOTIFY that it
\* sends goes out.
NotifyTimeout(sent) ==
  /\ pc = "run"
  /\ zone.notify_enabled
  /\ obs.notify_sent < MaxNotifySent
  /\ now' = IF zone.notify_timeout > now THEN zone.notify_timeout ELSE now
  /\ zone' = xfrd_handle_notify_send(zone, "timeout", <<>>, sent, now')
  /\ obs' = notify_sent_after(obs, zone, zone', sent)
  /\ UNCHANGED <<difflog, pc, table, removed, qvars>>

\* A datagram has come in on the socket of the last NOTIFY.  The handler
\* reads from the socket of the zone's request: read is what it gets there.
NotifyRead(read, sent) ==
  /\ pc = "run"
  /\ zone.notify_enabled
  /\ zone.notify_fd # -1
  /\ obs.notify_sent < MaxNotifySent
  /\ read # <<>> => zone.fd # -1
  /\ zone' = xfrd_handle_notify_send(zone, "read", read, sent, now)
  /\ obs' = notify_sent_after(obs, zone, zone', sent)
  /\ UNCHANGED <<difflog, now, pc, table, removed, qvars>>

\* The options of a zone with one master that sends NOTIFY to MaxTargets
\* hosts.
NotifyOptions ==
  [request_xfr |-> <<[host |-> 1, key_options |-> FALSE, use_axfr_only |-> FALSE]>>,
   allow_notify |-> <<[host |-> 1]>>,
   notify |-> [i \in 1..MaxTargets |-> [host |-> i + 1, key_options |-> FALSE]]]

\* what the notify send handler may read: a reply to the last NOTIFY or to
\* another one, with the opcode NOTIFY and the QR bit or without
NotifyReplies(z) ==
  [opcode_ok : BOOLEAN, id : {z.notify_query_id, 0}, rcode : {"OK", "IMPL", "REFUSE"}]

\* nsd has loaded SOA 3 for the zone and has just reported it, with a
\* request of the zone out or without
NotifyInit ==
  /\ TableCreated
  /\ \E dbsoa \in {<<>>, <<Soa(2)>>}, requested \in BOOLEAN :
       zone = xfrd_handle_incoming_soa(
                IF requested
                THEN xfrd_make_request(xfrd_init_zone(NotifyOptions, dbsoa, 1),
                                       TRUE, 1, <<0, 0>>)
                ELSE xfrd_init_zone(NotifyOptions, dbsoa, 1),
                <<Soa(3)>>, 1, 1, <<0, 0>>)
  /\ difflog = <<>>
  /\ now = 1
  /\ pc = "run"
  /\ obs = ObsIdle

\* one NOTIFY-out round
NotifyNext ==
  \/ \E sent \in BOOLEAN : NotifyTimeout(sent)
  \/ \E read \in {<<>>} \cup {<<packet>> : packet \in NotifyReplies(zone)},
        sent \in BOOLEAN : NotifyRead(read, sent)

\* The timers of a zone alone: a zone without data, or a zone in any state
\* whose disk SOA was acquired at second 1, some seconds ago.
TimerValues == 0..MaxTimer
TimerInit ==
  /\ TableCreated
  /\ \/ /\ zone = xfrd_init_zone(ZoneOptions, <<>>, 1)
        /\ now \in 1..(1 + MaxElapsed)
     \/ \E refresh \in TimerValues, retry \in {0, MaxTimer}, expire \in TimerValues,
           state \in {"ok", "refreshing", "expired"} :
          /\ zone = [xfrd_init_zone(
                       ZoneOptions,
                       <<[refresh |-> refresh, retry |-> retry,
                          expire |-> expire, serial |-> 1]>>, 1)
                     EXCEPT !.state = state]
          /\ now \in 1..(1 + MaxElapsed)
  /\ difflog = <<>>
  /\ pc = "run"
  /\ obs = ObsIdle

\* a handler calls xfrd_set_timer_refresh
SetTimerRefresh(rnd) ==
  /\ pc = "run"
  /\ zone' = xfrd_set_timer_refresh(zone, now, rnd)
  /\ pc' = "refresh"
  /\ UNCHANGED <<difflog, now, obs, table, removed, qvars>>

\* a handler calls xfrd_set_timer_retry
SetTimerRetry(rnd) ==
  /\ pc = "run"
  /\ zone' = xfrd_set_timer_retry(zone, now, rnd)
  /\ pc' = "retry"
  /\ UNCHANGED <<difflog, now, obs, table, removed, qvars>>

TimerNext ==
  \/ \E a, b \in 0..MaxRandom : SetTimerRefresh(<<a, b>>)
  \/ \E a, b \in 0..MaxRandom : SetTimerRetry(<<a, b>>)

\* ----------------------------------------------------------- nsec3 actions
\* One zone, number 1, with apex <<1>>, is read into the name database in
\* the order of its names, then prehashed and then asked; zone 2 has RRsets
\* in the database as well.
ZoneApex == <<1>>
ZoneOwners ==
  {Append(ZoneApex, l) : l \in {1, WILDCARD} \cup HashLabels} \cup {<<3>>}
ZoneRRsets(dname, salt) ==
  IF dname_is_subdomain(dname, ZoneApex)
  THEN {[zone |-> 1, type |-> "NSEC3", soa_bit |-> b, salt |-> salt] : b \in BOOLEAN}
         \cup {[zone |-> 2, type |-> "NSEC3", soa_bit |-> FALSE, salt |-> salt],
               [zone |-> 1, type |-> "A", soa_bit |-> FALSE, salt |-> 0]}
  ELSE {[zone |-> 2, type |-> "NSEC3", soa_bit |-> FALSE, salt |-> salt]}

Nsec3Init ==
  /\ XfrQuiet
  /\ removed = {}
  /\ db = <<>>
  /\ query = [op |-> "none"]
  /\ rc = daemon_remote_create
  /\ prehashed = <<>>
  /\ \E salt \in 0..MaxSalt :
       dbzone = [number |-> 1, apex |-> ZoneApex, salt |-> salt,
                 nsec3_rrset |-> NULL, nsec3_last |-> NULL]
  /\ table = domain_add_rrset(
               domain_table_insert(domain_table_create, ZoneApex, "greater").table,
               ZoneApex,
               [zone |-> 1, type |-> "SOA", soa_bit |-> FALSE, salt |-> 0])

\* an RRset of the zone file is added to its owner
ReadRRset(dname, rrset) ==
  /\ prehashed = <<>>
  /\ LoadOf(table) < MaxZoneRRsets + 1
  /\ \A d \in table.nametree :
       table.dom[d].rrsets # <<>> => dname_compare(dname, d) >= 0
  /\ dname \in table.nametree =>
       \A i \in 1..Len(table.dom[dname].rrsets) :
         \/ table.dom[dname].rrsets[i].zone # rrset.zone
         \/ table.dom[dname].rrsets[i].type # rrset.type
  /\ table' = domain_add_rrset(
                domain_table_insert(table, dname, "greater").table, dname, rrset)
  /\ UNCHANGED <<removed, xfrvars, dbzone, prehashed, db, query, rc>>

Prehash ==
  /\ prehashed = <<>>
  /\ \E r \in {prehash_zone(table, dbzone)} :
       /\ dbzone' = r.zone
       /\ prehashed' = r.domains
  /\ UNCHANGED <<table, removed, xfrvars, db, query, rc>>

\* nsec3_find_cover for a hashed name of the zone
FindCover(hashname) ==
  /\ prehashed # <<>>
  /\ dbzone.nsec3_rrset # NULL
  /\ \E r \in {nsec3_find_cover(table, dbzone, hashname)} :
       query' = [op |-> "find_cover", hashname |-> hashname,
                 exact |-> r.exact, result |-> r.result]
  /\ UNCHANGED <<table, removed, xfrvars, dbzone, prehashed, db, rc>>

\* The names and types that are asked for: names that the zone file may or
\* may not hold, one and two labels under the apex.
QNames ==
  {Append(ZoneApex, l) : l \in {1, 3, HASH_BASE}} \cup {<<1, 1, 1>>}
QTypes == {"A", "NSEC3"}

\* nsec3_answer_authoritative for a query of the zone, with the match and the
\* closest encloser that the search of the name tree gives.  A name that has
\* NSEC3 RRsets only is asked for type NSEC3 only: for another type the
\* name itself stays the closest encloser, and it has no label below it to
\* prove.
AnswerAuthoritative(qname, qtype) ==
  /\ prehashed # <<>>
  /\ dbzone.nsec3_rrset # NULL
  /\ \E s \in {domain_table_search(table, qname)} :
       /\ domain_find_zone(table, s.closest_encloser) = dbzone.number
       /\ s.exact /\ qtype # "NSEC3" =>
            ~domain_has_only_NSEC3(table, s.closest_encloser, dbzone)
       /\ \E r \in {nsec3_answer_authoritative(
                       table, dbzone, prehashed,
                       [qname |-> qname, qtype |-> qtype, rcode |-> "OK",
                        answer |-> {}],
                       IF s.exact THEN s.closest_encloser ELSE NULL,
                       s.closest_encloser)} :
            query' = [op |-> "answer", qname |-> qname, qtype |-> qtype,
                      closest_encloser |-> s.closest_encloser,
                      match |-> r.match, rcode |-> r.query.rcode,
                      answer |-> r.query.answer]
  /\ UNCHANGED <<table, removed, xfrvars, dbzone, prehashed, db, rc>>

AnswerNext ==
  \/ \E dname \in ZoneOwners :
       \E rrset \in ZoneRRsets(dname, dbzone.salt) : ReadRRset(dname, rrset)
  \/ Prehash
  \/ \E qname \in QNames : \E qtype \in QTypes : AnswerAuthoritative(qname, qtype)

Nsec3Next ==
  \/ \E dname \in ZoneOwners :
       \E rrset \in ZoneRRsets(dname, dbzone.salt) : ReadRRset(dname, rrset)
  \/ Prehash
  \/ \E l \in HashLabels : FindCover(Append(ZoneApex, l))

\* ----------------------------------------------------------- zonec actions
\* The RRs of a zone file of zone 1 with apex <<1>>: at the apex and at a
\* name under it, and one RR of another class and one outside the zone.
ZoneRR(d, t, c, ttl, r) ==
  [zone |-> 1, domain |-> d, type |-> t, class |-> c, ttl |-> ttl, rdata |-> r]
\* the rdata of an NS, an SOA and an MX RR that name host r
NsRdata(r) == <<DomainAtom(<<1, r>>)>>
SoaRdata(r) ==
  <<DomainAtom(<<1, r>>), DomainAtom(<<1, 1>>), DataAtom(<<r>>), DataAtom(<<1>>),
    DataAtom(<<1>>), DataAtom(<<1>>), DataAtom(<<1>>)>>
MxRdata(preference, r) == <<DataAtom(<<0, preference>>), DomainAtom(<<1, r>>)>>
ZoneFileRRs ==
  {ZoneRR(d, t, "IN", ttl, IF t = "SOA" THEN SoaRdata(r) ELSE NsRdata(r)) :
     d \in {ZoneApex, <<1, 1>>}, t \in {"SOA", "NS"}, ttl \in {1, 2}, r \in {1, 2}}
    \cup {ZoneRR(ZoneApex, "NS", "CH", 1, NsRdata(1)),
          ZoneRR(<<3>>, "NS", "IN", 1, NsRdata(1))}

\* zone_open: the zone has its domain in the table and no SOA and NS yet
ZonecInit ==
  /\ XfrQuiet
  /\ removed = {}
  /\ db = <<>>
  /\ query = [op |-> "none"]
  /\ rc = daemon_remote_create
  /\ prehashed = <<>>
  /\ table = domain_table_insert(domain_table_create, ZoneApex, "greater").table
  /\ dbzone = [number |-> 1, domain |-> ZoneApex, soa_rrset |-> NULL,
               ns_rrset |-> NULL]

\* the parser has the owner of the RR in the table, then calls process_rr
ProcessRR(rr) ==
  /\ \E r \in {process_rr(domain_table_insert(table, rr.domain, "greater").table,
                          dbzone, rr)} :
       /\ table' = r.table
       /\ dbzone' = r.zone
  /\ UNCHANGED <<removed, xfrvars, prehashed, db, query, rc>>

ZonecNext == \E rr \in ZoneFileRRs : ProcessRR(rr)

\* ----------------------------------------------------------- query actions
\* The database holds one zone with apex <<1>>; under the apex it has one
\* name with a name below it, and the wildcards next to them.
DbApex == [delegation |-> FALSE, answers |-> {"SOA", "NS"}]
DbData ==
  {[delegation |-> FALSE, answers |-> {"A"}],
   [delegation |-> FALSE, answers |-> {"MX"}]}
DbKinds(n) ==
  IF n[Len(n)] = WILDCARD
  THEN DbData
  ELSE DbData \cup {[delegation |-> TRUE, answers |-> {"NS"}]}
DbNames == {<<1, 1>>, <<1, WILDCARD>>, <<1, 1, 1>>, <<1, 1, WILDCARD>>}
Databases ==
  UNION {{d \in [names \cup {ZoneApex} -> DbData \cup DbKinds(ZoneApex) \cup {DbApex}] :
            /\ d[ZoneApex] = DbApex
            /\ \A n \in names : d[n] \in DbKinds(n)} : names \in SUBSET DbNames}

\* The names that are asked for: a name outside the zone and the names of
\* one to MaxDepth labels under the apex that have no "*" label.  The
\* other queries differ from a query for such a name in one field of the
\* header or of the question.
RECURSIVE QueryNamesUpTo(_)
QueryNamesUpTo(n) ==
  IF n = 1 THEN {ZoneApex}
  ELSE LET S == QueryNamesUpTo(n - 1)
       IN S \cup {Append(s, l) : s \in {x \in S : Len(x) = n - 1},
                                 l \in Labels \ {WILDCARD}}
QueryNames == QueryNamesUpTo(MaxDepth) \cup {<<3>>}
PlainQuery(qname, qtype) ==
  [qr |-> FALSE, opcode |-> "QUERY", tc |-> FALSE, qdcount |-> 1,
   ancount |-> 0, nscount |-> 0, arcount |-> 0, qname |-> qname,
   compressed |-> FALSE, qtype |-> qtype, qclass |-> "IN"]
OddQueries ==
  LET q == PlainQuery(<<1, 1>>, "A")
  IN {[q EXCEPT !.qr = TRUE], [q EXCEPT !.opcode = "NOTIFY"],
      [q EXCEPT !.tc = TRUE], [q EXCEPT !.compressed = TRUE],
      [q EXCEPT !.qclass = "ANY"], [q EXCEPT !.qclass = "CH"],
      [q EXCEPT !.qtype = "AXFR"], [q EXCEPT !.qtype = "MAILB"]}
    \cup {[q EXCEPT !.qdcount = c] : c \in 0..MaxCount}
    \cup {[q EXCEPT !.ancount = c] : c \in 0..MaxCount}
    \cup {[q EXCEPT !.nscount = c] : c \in 0..MaxCount}
    \cup {[q EXCEPT !.arcount = c] : c \in 0..MaxCount}
Queries ==
  {PlainQuery(qname, qtype) : qname \in QueryNames, qtype \in {"A", "SOA"}}
    \cup OddQueries

QueryInit ==
  /\ XfrQuiet
  /\ table = domain_table_create
  /\ removed = {}
  /\ dbzone = [number |-> 0]
  /\ prehashed = <<>>
  /\ query = [op |-> "none"]
  /\ rc = daemon_remote_create
  /\ db \in Databases

\* query_process for one packet; a packet that is not a query is dropped
QueryProcess(q) ==
  /\ db # <<>>
  /\ IF q.qr
     THEN query' = [op |-> "drop", q |-> q]
     ELSE query' = [op |-> "query_process", q |-> q,
                    reply |-> query_process(db, q)]
  /\ UNCHANGED <<table, removed, xfrvars, dbzone, prehashed, db, rc>>

QueryNext == \E q \in Queries : QueryProcess(q)

\* ---------------------------------------------------------- specifications
\* the name database alone; xfrd stays as it started
NdbInit == TableCreated /\ XfrQuiet

Spec == NdbInit /\ [][NdbNext]_vars

SpecRR == NdbInit /\ [][RRNext]_vars

SpecXfr == XfrInit /\ [][XfrNext]_vars

SpecTsig == TsigInit /\ [][TsigNext]_vars

SpecRounds == RoundsInit /\ [][RoundsNext]_vars

\* the event loop runs every handler that is due
SpecRoundsFair == RoundsInit /\ [][RoundsNext]_vars /\ WF_vars(RoundsNext)

SpecZone == ZoneInit /\ [][ZoneNext]_vars

SpecNotified == ZoneInit /\ [][NotifiedNext]_vars

SpecLoaded == ZoneInit /\ [][LoadedNext]_vars

SpecRoundsNotified == ZoneInit /\ [][RoundsNotifiedNext]_vars

SpecNotify == NotifyInit /\ [][NotifyNext]_vars

SpecTimer == TimerInit /\ [][TimerNext]_vars

SpecNsec3 == Nsec3Init /\ [][Nsec3Next]_vars

SpecAnswer == Nsec3Init /\ [][AnswerNext]_vars

SpecQuery == QueryInit /\ [][QueryNext]_vars

SpecZonec == ZonecInit /\ [][ZonecNext]_vars

\* ------------------------------------------------- claims: the domain table
Root == <<>>
NameParent(n) == SubSeq(n, 1, Len(n) - 1)
ProperDescendants(t, d) ==
  {n \in t.nametree : n # d /\ dname_is_subdomain(n, d)}
\* a removal has happened: a domain holds a lower number than its parent, which
\* allocation alone never yields
NumberInversion ==
  \E d \in table.nametree \ {Root} :
    table.dom[d].number < table.dom[table.dom[d].parent].number

\* C1: the numbers of the domains in the table are pairwise distinct and are
\* exactly 1..N for N domains; the root has number 1 and numlist_last is the
\* domain numbered N.
C1_NumbersDense ==
  LET N == Cardinality(table.nametree)
  IN /\ {table.dom[d].number : d \in table.nametree} = 1..N
     /\ \A a, b \in table.nametree :
          table.dom[a].number = table.dom[b].number => a = b
     /\ table.dom[Root].number = 1
     /\ table.numlist_last \in table.nametree
     /\ table.dom[table.numlist_last].number = N

C1_Witness ==
  /\ NumberInversion
  /\ Cardinality(table.nametree) >= 3

\* C2: for every domain P, wildcard_child_closest_match is P when P has no
\* direct child whose leftmost label sorts at or before "*", and else the
\* greatest such child; domain_wildcard_child(P) is nothing or the child *.P.
GreatestWildcardChild(t, P) ==
  LET C == {n \in t.nametree :
              /\ Len(n) = Len(P) + 1
              /\ dname_is_subdomain(n, P)
              /\ label_compare(dname_name(n), WILDCARD) <= 0}
  IN IF C = {} THEN P
     ELSE CHOOSE c \in C : \A e \in C : dname_compare(e, c) <= 0

C2_WildcardChildClosestMatch ==
  \A P \in table.nametree :
    /\ table.dom[P].wildcard_child_closest_match = GreatestWildcardChild(table, P)
    /\ domain_wildcard_child(table, P) \in {NULL, Append(P, WILDCARD)}

\* C3: for every name Q, the closest encloser that domain_table_search
\* returns is the longest right-anchored label suffix of Q that is in the
\* table; it is never null, and it is the root when no longer suffix is there.
LongestPresentSuffix(t, Q) ==
  LET P == {n \in t.nametree : dname_is_subdomain(Q, n)}
  IN CHOOSE n \in P : \A m \in P : Len(m) <= Len(n)

C3_ClosestEncloser ==
  \A Q \in Names :
    LET ce == domain_table_search(table, Q).closest_encloser
    IN /\ ce # NULL
       /\ ce \in table.nametree
       /\ ce = LongestPresentSuffix(table, Q)

C3_Witness ==
  \E Q \in Names \ table.nametree :
    LET s == domain_table_search(table, Q)
    IN /\ s.closest_encloser # Root
       /\ s.closest_match # s.closest_encloser
       /\ NumberInversion

\* C4: for a name D in the table, domain_table_find(D) is the domain of that
\* name, the one an insert of D returns, and domain_table_search(D) reports an
\* exact match with that domain as closest encloser; for a name that is not in
\* the table domain_table_find returns nothing.
C4_FindInserted ==
  \A D \in Names :
    LET s == domain_table_search(table, D)
    IN /\ D \in table.nametree =>
            /\ domain_table_find(table, D) = D
            /\ s.exact
            /\ s.closest_encloser = D
       /\ D \notin table.nametree => domain_table_find(table, D) = NULL
       /\ InsertAllowed(table, D, MaxDomains) =>
            \A ub \in UBOutcomes(table) :
              LET r == domain_table_insert(table, D, ub)
              IN /\ r.result = D
                 /\ domain_table_find(r.table, D) = r.result

C4_Witness ==
  /\ NumberInversion
  /\ \E D \in table.nametree : Len(D) = 2 /\ domain_table_find(table, D) = D
  /\ \E D \in Names \ table.nametree :
       /\ NameParent(D) \in table.nametree
       /\ domain_table_find(table, D) = NULL

\* C5: a call of domain_table_deldomain removes a domain only when it has no
\* RRsets, usage 0 and no descendant left in the tree; the removed domains are
\* a chain of ancestors, and the parent of the topmost one is not deletable
\* afterwards; the root is never removed.
Deletable(t, d) ==
  /\ t.dom[d].rrsets = <<>>
  /\ t.dom[d].usage = 0
  /\ ProperDescendants(t, d) = {}

C5_DeleteCascade ==
  [][LET R == table.nametree \ table'.nametree
     IN /\ Root \in table'.nametree
        /\ \A d \in R :
             /\ table.dom[d].rrsets = <<>>
             /\ table.dom[d].usage = 0
             /\ ProperDescendants(table, d) \subseteq R
        /\ \A a, b \in R : dname_is_subdomain(a, b) \/ dname_is_subdomain(b, a)
        /\ R # {} =>
             LET top == CHOOSE d \in R : \A e \in R : Len(d) <= Len(e)
             IN ~Deletable(table', table.dom[top].parent)]_ndbvars

C5_Witness ==
  /\ Cardinality(removed) = 2
  /\ \E d \in table.nametree : table.dom[d].rrsets # <<>>

\* C6: the name tree holds the root and, with every domain, each of its
\* ancestors; the parent pointer of a domain is the domain of its name
\* without the leftmost label (null at the root).
C6_AncestorsPresent ==
  /\ Root \in table.nametree
  /\ table.dom[Root].parent = NULL
  /\ DOMAIN table.dom = table.nametree
  /\ \A d \in table.nametree \ {Root} :
       /\ NameParent(d) \in table.nametree
       /\ table.dom[d].parent = NameParent(d)

C6_Witness ==
  /\ NumberInversion
  /\ \E d \in table.nametree : Len(d) = 2

\* C7: a domain has is_existing set if and only if it or one of its
\* descendants carries an RRset.
C7_IsExisting ==
  \A d \in table.nametree :
    table.dom[d].is_existing <=>
      \E n \in table.nametree :
        dname_is_subdomain(n, d) /\ table.dom[n].rrsets # <<>>

C7_Witness ==
  /\ removed # {}
  /\ \E d \in table.nametree \ {Root} :
       /\ table.dom[d].rrsets # <<>>
       /\ table.dom[d].is_existing
       /\ table.dom[Root].is_existing

\* -------------------------------------------------------- claims: transfers
\* C8: after every transfer that is accepted and committed, the serial of
\* soa_disk is the new serial that the first SOA of the stream announced, the
\* one written in the commit record.
C8_DiskSerialIsNewSerial ==
  obs.commit =>
    /\ difflog[Len(difflog)].new_serial = obs.announced
    /\ zone.soa_disk.serial = obs.announced

\* C9: with a key on the master, a packet is taken (as a part, or as the end
\* of an accepted transfer) only if the first packet of the reply carried a
\* valid TSIG and no more than 103 packets in a row, the packet included,
\* came without one; the packet that ends an accepted transfer carries a
\* valid TSIG itself.  A packet whose TSIG is malformed or does not verify is
\* rejected as bad, and what the zone knows from the RRs of the reply (the
\* RR count, the serials of the stream, the SOAs) is as it was before.
C9_Taken ==
  (Master(zone).key_options /\ (obs.res = "more" \/ obs.commit)) =>
    /\ obs.first_signed
    /\ obs.run <= XFRD_TSIG_MAX_UNSIGNED
    /\ obs.commit => obs.run = 0
C9_Rejected ==
  (zone.master # -1 /\ Master(zone).key_options
     /\ obs' # obs /\ obs'.tsig \in {"malformed", "badsig"}) =>
    /\ obs'.res = "bad"
    /\ ~obs'.commit
    /\ zone'.msg_rr_count = zone.msg_rr_count
    /\ zone'.msg_new_serial = zone.msg_new_serial
    /\ zone'.msg_old_serial = zone.msg_old_serial
    /\ zone'.msg_is_ixfr = zone.msg_is_ixfr
    /\ zone'.msg_seq_nr = zone.msg_seq_nr
    /\ zone'.soa_disk = zone.soa_disk
    /\ zone'.soa_disk_acquired = zone.soa_disk_acquired
    /\ zone'.soa_notified = zone.soa_notified
    /\ zone'.soa_notified_acquired = zone.soa_notified_acquired
    /\ zone'.state = zone.state
    /\ \A i \in 1..Len(difflog') :
         i > Len(difflog) => difflog'[i].type # "packet"
\* C9: every packet that is taken obeys the TSIG rules above, and every step
\* that handles a packet with a malformed or wrongly signed TSIG rejects it
\* with the RRs unexamined.
C9_Tsig == [](zone.master # -1 => C9_Taken) /\ [][C9_Rejected]_vars

\* a transfer is accepted whose packet before the last ended a run of 103
\* packets without TSIG
C9_Witness ==
  /\ zone.master # -1
  /\ Master(zone).key_options
  /\ obs.commit
  /\ obs.prev_run = XFRD_TSIG_MAX_UNSIGNED

\* the records of the difflog from position i on are the packet records of
\* parts 0..k-1 of request id, in this order
PartRecords(log, i, k, id, serial) ==
  /\ Len(log) >= i + k - 1
  /\ \A j \in 0..(k - 1) :
       /\ log[i + j].type = "packet"
       /\ log[i + j].seq_nr = j
       /\ log[i + j].id = id
       /\ log[i + j].new_serial = serial

\* C10: when a transfer has been accepted in k packets, the difflog holds
\* for its request exactly k packet records, parts 0..k-1 in the order of
\* arrival, and after them exactly one commit record, with the committed
\* flag, k parts, and the old and the new serial; soa_disk and
\* soa_disk_acquired are unchanged while the parts arrive and still unchanged
\* when the commit record is written.
C10_DifflogRecords ==
  LET k == obs.parts
      n == Len(difflog)
      id == zone.query_id
  IN /\ obs.res = "more" =>
          /\ PartRecords(difflog, n - k + 1, k, id, obs.announced)
          /\ \A i \in 1..(n - k) : difflog[i].id # id
          /\ zone.soa_disk = obs.disk0.soa_disk
          /\ zone.soa_disk_acquired = obs.disk0.soa_disk_acquired
     /\ obs.commit =>
          /\ k >= 1
          /\ n >= k + 1
          /\ PartRecords(difflog, n - k, k, id, obs.announced)
          /\ \A i \in 1..(n - k - 1) : difflog[i].id # id
          /\ difflog[n] =
               [type |-> "commit",
                old_serial |-> IF obs.disk0.soa_disk_acquired # 0
                               THEN obs.disk0.soa_disk.serial ELSE 0,
                new_serial |-> obs.announced,
                id |-> id, seq_nr |-> k, commit |-> 1]
          /\ obs.at_commit = <<obs.disk0>>

\* a transfer of two parts is committed and the disk SOA has changed
C10_Witness ==
  /\ obs.commit
  /\ obs.parts = 2
  /\ zone.soa_disk # obs.disk0.soa_disk
  /\ zone.soa_disk_acquired # obs.disk0.soa_disk_acquired

\* -------------------------------------------------------- claims: rounds
\* C11: when no master replies and no NOTIFY arrives, the q-th request of a
\* zone with N masters goes to master (q - 1) mod N, in the order of the
\* list and wrapping to the first; the call of xfrd_make_request that follows
\* 3 * N requests sends nothing, sets round_num to -1 and arms the zone timer
\* for a later second; the call after it asks the first master again.
C11_Step ==
  (pc = "make_request" /\ pc' = "run") =>
    LET N == Len(zone.zone_options.request_xfr)
        q == zone.query_id
    IN IF q > 0 /\ q % (3 * N) = 0 /\ zone.round_num # -1
       THEN /\ zone'.query_id = q
            /\ zone'.round_num = -1
            /\ zone'.timeout > now
            /\ zone'.fd = -1
            /\ zone'.tcp_conn = -1
       ELSE /\ zone'.query_id = q + 1
            /\ zone'.master_num = q % N
            /\ zone'.master = q % N
            /\ zone'.round_num = (q % (3 * N)) \div N
            /\ zone'.timeout > now
C11_Rounds == [][C11_Step]_vars

\* two masters were asked three times each, the zone waited, and the first
\* master is asked again
C11_Witness ==
  /\ Len(zone.zone_options.request_xfr) = 2
  /\ zone.query_id = 7
  /\ zone.master_num = 0
  /\ zone.round_num = 0
  /\ pc = "run"

\* ------------------------------------------------------ claims: zone states
\* C12: when the zone timer of a zone in state ok fires, with no TCP
\* transaction in progress and no wait for a TCP slot, the zone moves to state
\* refreshing and a probe is sent; no probe is sent on timer expiry while the
\* zone stays in state ok.
C12_Step ==
  /\ (ZoneTimeout(ZoneRequests) /\ zone.state = "ok" /\ zone.tcp_conn = -1) =>
       zone'.state = "refreshing"
  /\ (pc = "make_request" /\ pc' = "run" /\ obs = ObsIdle /\ zone.state = "ok") =>
       zone'.query_id = zone.query_id

C12_RefreshTimer == [][C12_Step]_vars

\* a NOTIFY is passed on whose SOA is newer than the SOA on disk
NewerNotify ==
  \E soa \in NotifySoas \ {<<>>}, acl_num \in {0, MaxMasters} :
    /\ PassedPacket(soa, acl_num)
    /\ compare_serial(soa[1].serial, zone.soa_disk.serial) > 0

\* C13 as stated: a NOTIFY with an SOA serial newer than soa_disk's puts the
\* zone in state refreshing, whatever its state was, and sets the zone timer
\* to the current time.
C13_AnyStateRefreshing ==
  [][NewerNotify => zone'.state = "refreshing" /\ zone'.timeout = now]_vars

\* C13: a NOTIFY with an SOA serial newer than soa_disk's puts a zone in
\* state ok in state refreshing and leaves a zone in another state in its
\* state, and sets the zone timer to the current time.
C13_OkRefreshing ==
  [][NewerNotify =>
       /\ zone'.state = IF zone.state = "ok" THEN "refreshing" ELSE zone.state
       /\ zone'.timeout = now]_vars

C13_Witness ==
  /\ obs.res = "notify"
  /\ zone.state = "refreshing"
  /\ zone.soa_disk.serial = 2
  /\ zone.soa_notified.serial = 3
  /\ zone.soa_notified_acquired = now
  /\ zone.timeout = now
  /\ zone.query_id = 1

\* a reply is handled that ends a transfer: the commit record is written
Committed == obs'.commit /\ difflog' # difflog

\* the zone timer is set to the retry time of the disk SOA, counted from now
RetryTimerSet(z) ==
  LET retry == IF z.soa_disk.retry < XFRD_LOWERBOUND_RETRY
               THEN XFRD_LOWERBOUND_RETRY ELSE z.soa_disk.retry
  IN IF retry > 10
     THEN z.timeout \in (now + (retry * 9) \div 10)..(now + retry - 1)
     ELSE z.timeout = now + retry

\* C14 as stated: when a zone in state expired completes a successful update
\* (a transfer is accepted and committed), it moves to state ok and the
\* refresh timer is scheduled.
C14_ExpiredToOk ==
  [][(Committed /\ zone.state = "expired") =>
       zone'.state = "ok" /\ zone'.timeout > now]_vars

\* C14: when a zone in state expired completes a successful update, it stays
\* in state expired; the retry timer is scheduled, unless a NOTIFY of a newer
\* serial is pending, and then the next request is made at once.
C14_ExpiredStays ==
  [][(Committed /\ zone.state = "expired") =>
       /\ zone'.state = "expired"
       /\ zone'.soa_disk_acquired = now
       /\ IF zone'.soa_notified_acquired = 0
          THEN zone'.round_num = -1 /\ RetryTimerSet(zone') /\ pc' = "run"
          ELSE pc' = "make_request"]_vars

C14_Witness ==
  /\ obs.commit
  /\ obs.res = "transfer"
  /\ zone.state = "expired"
  /\ zone.soa_disk_acquired = now
  /\ zone.round_num = -1
  /\ zone.timeout > now

\* nsd reports that it has loaded this SOA
LoadedReport(soa) ==
  \E delay \in 0..MaxDelay : IncomingSoa(soa, delay, <<0, 0>>)

\* a NOTIFY is pending that the SOA on disk does not answer
NotifyPending(z) ==
  z.soa_notified_acquired # 0 /\ ~notified_serial_reached(z)

\* the zone timer is set to the refresh or expire time of the disk SOA,
\* whichever is earlier, at second time
RefreshTimerSet(z, time) ==
  LET least == IF z.soa_disk.refresh < z.soa_disk.expire
               THEN z.soa_disk.refresh ELSE z.soa_disk.expire
      set == z.soa_disk_acquired
               + (IF least < XFRD_LOWERBOUND_REFRESH
                  THEN XFRD_LOWERBOUND_REFRESH ELSE least)
  IN IF set > time + 10
     THEN z.timeout \in (time + ((set - time) * 9) \div 10)..(set - 1)
     ELSE z.timeout = set

C15_Step ==
  \A soa \in LoadedSoas :
    LoadedReport(soa) =>
      LET elapsed == now' - zone.soa_disk_acquired
      IN IF zone.soa_nsd_acquired # 0 /\ soa[1].serial = zone.soa_nsd.serial
         THEN zone' = zone
         ELSE IF zone.soa_disk_acquired # 0
                   /\ soa[1].serial = zone.soa_disk.serial
         THEN IF elapsed >= zone.soa_disk.expire
              THEN zone'.state = "expired" /\ zone'.timeout = now'
              ELSE IF elapsed >= zone.soa_disk.refresh \/ NotifyPending(zone)
              THEN zone'.state = "refreshing" /\ zone'.timeout = now'
              ELSE zone'.state = "ok" /\ RefreshTimerSet(zone', now')
         ELSE zone'.state = "refreshing" /\ zone'.timeout = now'

\* the zone as xfrd creates it
StartExpired == zone.state = "expired" /\ zone.timeout = now

OneSoaNotNewer(packet) ==
  /\ UdpRead(packet, <<0, 0>>)
  /\ Len(packet.answer) = 1
  /\ zone.soa_disk_acquired # 0
  /\ compare_serial(packet.answer[1].serial, zone.soa_disk.serial) <= 0

C16_Step ==
  \A packet \in LoadedPackets(zone) :
    OneSoaNotNewer(packet) =>
      IF packet.answer[1].serial = zone.soa_disk.serial
      THEN IF zone.soa_notified_acquired = 0
           THEN /\ zone'.state = "ok"
                /\ zone'.soa_disk_acquired = now
                /\ zone'.round_num = -1
                /\ RefreshTimerSet(zone', now)
                /\ pc' = "run"
           ELSE /\ zone'.state = zone.state
                /\ zone'.soa_notified_acquired = zone.soa_notified_acquired
                /\ zone'.soa_disk_acquired = zone.soa_disk_acquired
                /\ pc' = "make_request"
      ELSE IF zone.state # "expired"
           THEN /\ zone'.state = zone.state
                /\ zone'.soa_disk_acquired = zone.soa_disk_acquired
                /\ pc' = "make_request"
           ELSE /\ zone'.state = "expired"
                /\ zone'.tcp_conn # -1
                /\ zone'.master = zone.master
                /\ pc' = "run"

ShortOrTruncated(packet) ==
  /\ \E rnd \in Randoms : UdpRead(packet, rnd)
  /\ packet.id = zone.query_id
  /\ packet.rcode_ok
  /\ packet.tc \/ Len(packet.answer) < 2

\* the zone asks the master of its last request again, over TCP
RetriedOverTcp ==
  /\ obs'.res = "tcp"
  /\ zone'.tcp_conn # -1
  /\ zone'.master = zone.master
  /\ zone'.master_num = zone.master_num
  /\ zone'.round_num = zone.round_num
  /\ pc' = "run"

\* the zone takes the SOA that begins the answer as a new serial
BeginsWithNewSerial(z, packet) ==
  /\ packet.answer # <<>>
  /\ Head(packet.answer).type = "SOA"
  /\ z.soa_disk_acquired # 0 =>
       /\ Head(packet.answer).serial # z.soa_disk.serial
       /\ z.state # "expired" =>
            compare_serial(z.soa_disk.serial, Head(packet.answer).serial) < 0

\* C17 as stated: a UDP reply with matching id and RCODE NOERROR that has the
\* TC bit set, or fewer than two answer records, makes the zone retry over
\* TCP with the same master instead of moving to the next master.
C17_ShortIsTcp ==
  [][\A packet \in ZonePackets(zone, FALSE) :
       ShortOrTruncated(packet) => RetriedOverTcp]_vars

\* C17: a UDP reply with matching id and RCODE NOERROR whose answer begins
\* with an SOA that the zone takes as a new serial (newer than soa_disk's, or
\* any serial but soa_disk's when the zone is expired, or any serial when
\* there is no disk SOA), and that has the TC bit set or fewer than two
\* answer records, makes the zone retry over TCP with the same master instead
\* of moving to the next master.
C17_NewSerialShortIsTcp ==
  [][\A packet \in ZonePackets(zone, FALSE) :
       (ShortOrTruncated(packet) /\ BeginsWithNewSerial(zone, packet)) =>
         RetriedOverTcp]_vars

C17_Witness ==
  /\ obs.res = "tcp"
  /\ zone.tcp_conn # -1
  /\ zone.soa_disk.serial = 2
  /\ zone.msg_new_serial = 3
  /\ zone.state = "refreshing"

\* ----------------------------------------------------------- claims: NOTIFY
\* the places in the master list, counted from 0, of the host of entry
\* acl_num of the allow_notify list
MastersOfNotifier(z, acl_num) ==
  {k \in 0..(Len(z.zone_options.request_xfr) - 1) :
     z.zone_options.request_xfr[k + 1].host
       = z.zone_options.allow_notify[acl_num + 1].host}

\* C18: after a NOTIFY from a host that is the k-th entry of the master list,
\* the next request that xfrd_make_request makes for the zone goes to master
\* k, with round_num reset to 0; a NOTIFY from another host leaves the
\* master cycle as it is.
C18_Step ==
  /\ \A soa \in {<<>>, <<Soa(3)>>}, acl_num \in 0..MaxMasters :
       PassedPacket(soa, acl_num) =>
         IF MastersOfNotifier(zone, acl_num) = {}
         THEN /\ zone'.next_master = zone.next_master
              /\ zone'.round_num = zone.round_num
              /\ zone'.master_num = zone.master_num
         ELSE zone'.next_master \in MastersOfNotifier(zone, acl_num)
  /\ (pc = "make_request" /\ zone.next_master # -1) =>
       /\ zone'.master_num = zone.next_master
       /\ zone'.master = zone.next_master
       /\ zone'.round_num = 0
       /\ zone'.query_id = zone.query_id + 1
       /\ zone'.next_master = -1
  /\ pc = "run" /\ pc' = "make_request" => zone'.next_master = zone.next_master

C18_NotifierIsNext == [][C18_Step]_vars

C18_Witness ==
  /\ pc = "run"
  /\ zone.query_id = XFRD_MAX_ROUNDS * MaxMasters + 1
  /\ zone.master_num = MaxMasters - 1
  /\ zone.round_num = 0
  /\ zone.next_master = -1
  /\ zone.soa_notified_acquired = now
  /\ now > 1

\* a NOTIFY-out round is started: the notify handler gets its timeout
NotifyStarted ==
  /\ zone'.notify_enabled
  /\ ~zone.notify_enabled \/ zone'.notify_timeout # zone.notify_timeout

\* the difflog holds a commit record of a transfer to this serial
CommitRecorded(log, serial) ==
  \E i \in 1..Len(log) :
    log[i].type = "commit" /\ log[i].commit = 1 /\ log[i].new_serial = serial

\* nsd reports a serial that soa_nsd does not have
NewSerialLoaded(soa) ==
  /\ LoadedReport(soa)
  /\ zone.soa_nsd_acquired = 0 \/ soa[1].serial # zone.soa_nsd.serial

\* C19 as stated: a NOTIFY-out round is started only after a commit record
\* for the serial that is announced has been appended to the difflog.
C19_CommitBeforeNotify ==
  [][NotifyStarted => CommitRecorded(difflog', zone'.soa_nsd.serial)]_vars

\* C19: a NOTIFY-out round is started when, and only when, nsd reports that
\* it has loaded an SOA with another serial than that of soa_nsd, and it
\* announces that serial; the commit of a transfer starts no round, and a
\* serial that nsd has loaded from elsewhere is announced without a commit
\* record.
C19_Step ==
  /\ NotifyStarted =>
       \E soa \in LoadedSoas :
         /\ NewSerialLoaded(soa)
         /\ zone'.soa_nsd.serial = soa[1].serial
         /\ zone'.soa_nsd_acquired # 0
         /\ difflog' = difflog
  /\ \A soa \in LoadedSoas :
       NewSerialLoaded(soa) =>
         /\ zone'.notify_enabled
         /\ zone'.notify_current = 0
         /\ zone'.notify_retry = 0
         /\ zone'.notify_timeout = now'

C19_NotifyAfterLoad == [][C19_Step]_vars

C19_Witness ==
  /\ obs.res = "soa"
  /\ zone.notify_enabled
  /\ zone.notify_current = 0
  /\ zone.notify_timeout = now
  /\ zone.soa_nsd.serial = 3
  /\ CommitRecorded(difflog, 3)
  /\ zone.soa_nsd_acquired < now

\* C20: in one NOTIFY-out round each target of the notify list is sent at
\* most 5 NOTIFY packets, whatever replies arrive, before the sender goes on
\* to the next target; after the last target the round ends with
\* notify_current null and the notify handler disabled.
C20_AtMostFivePackets ==
  /\ obs.notify_sent <= XFRD_NOTIFY_MAX_NUM
  /\ zone.notify_current = -1 => ~zone.notify_enabled /\ zone.notify_fd = -1

\* ------------------------------------------------------ claims: zone timer
\* C21: the zone timer is set at all times, to the present second or a later
\* one; when it fires, the handler closes the UDP socket and the TCP
\* connection of the last request, and then either makes a request to a
\* master, with the timer set to a later second, or sets round_num to -1 and
\* the timer to a later second without a request; so a zone whose masters
\* never answer makes request after request.
C21_Step ==
  /\ (pc = "run" /\ pc' = "make_request") =>
       /\ zone'.fd = -1
       /\ zone'.tcp_conn = -1
  /\ (pc = "make_request" /\ pc' = "run") =>
       /\ zone'.timeout > now
       /\ \/ /\ zone'.query_id = zone.query_id + 1
             /\ zone'.master \in 0..(Len(zone.zone_options.request_xfr) - 1)
             /\ zone'.round_num # -1
          \/ /\ zone'.query_id = zone.query_id
             /\ zone'.round_num = -1
             /\ zone'.fd = -1
             /\ zone'.tcp_conn = -1
RefreshOfOk ==
  /\ pc = "run"
  /\ pc' = "refresh"
  /\ zone.state = "ok"
  /\ zone.soa_disk_acquired # 0
LeastOf(a, b) == IF a < b THEN a ELSE b
GreatestOf(a, b) == IF a < b THEN b ELSE a

\* C22 as stated: for a zone in state ok with a disk SOA, the deadline that
\* xfrd_set_timer_refresh sets is never before soa_disk_acquired + 1 and
\* never after soa_disk_acquired + expire, for all refresh and expire; when
\* it is at most 10 s ahead it is soa_disk_acquired + min(refresh, expire).
C22_Step ==
  RefreshOfOk =>
    LET acquired == zone.soa_disk_acquired
        least == LeastOf(zone.soa_disk.refresh, zone.soa_disk.expire)
    IN /\ zone'.timeout >= acquired + 1
       /\ zone'.timeout <= acquired + zone.soa_disk.expire
       /\ acquired + least <= now + 10 => zone'.timeout = acquired + least
C22_WithinExpire == [][C22_Step]_vars

\* C22, amended: the deadline is never before soa_disk_acquired + 1 and never
\* after soa_disk_acquired + max(expire, 1); when it is at most 10 s ahead it
\* is soa_disk_acquired + max(1, min(refresh, expire)).
C22_BoundedStep ==
  RefreshOfOk =>
    LET acquired == zone.soa_disk_acquired
        least == LeastOf(zone.soa_disk.refresh, zone.soa_disk.expire)
        set == acquired + GreatestOf(1, least)
    IN /\ zone'.timeout >= acquired + 1
       /\ zone'.timeout <= acquired + GreatestOf(zone.soa_disk.expire, 1)
       /\ set <= now + 10 => zone'.timeout = set
C22_LowerBounded == [][C22_BoundedStep]_vars

\* an SOA that expires at once: the timer of the ok zone is set one second
\* after the SOA was acquired
C22_Witness ==
  /\ pc = "refresh"
  /\ zone.state = "ok"
  /\ zone.soa_disk_acquired = 1
  /\ zone.soa_disk.expire = 0
  /\ zone.soa_disk.refresh = MaxTimer
  /\ zone.timeout = 2

\* C23: when soa_disk_acquired is 0, the deadline that xfrd_set_timer_retry
\* sets lies between now + 10 and now + 20, whatever random() returns.
C23_Step ==
  (pc = "run" /\ pc' = "retry" /\ zone.soa_disk_acquired = 0) =>
    /\ zone'.timeout >= now + XFRD_TRANSFER_TIMEOUT
    /\ zone'.timeout <= now + 2 * XFRD_TRANSFER_TIMEOUT
C23_RetryWithoutData == [][C23_Step]_vars

\* ------------------------------------------------------------ claims: nsec3
\* the domains under the apex that own an NSEC3 RRset of the zone
Nsec3Owners(t, z) ==
  {d \in t.nametree :
     /\ dname_is_subdomain(d, z.apex)
     /\ \E i \in 1..Len(t.dom[d].rrsets) :
          t.dom[d].rrsets[i].zone = z.number /\ t.dom[d].rrsets[i].type = "NSEC3"}

\* C24: for a zone with NSEC3, nsec3_find_cover never returns the null
\* pointer: for a hashed name in the tree that owns an NSEC3 RRset of the
\* zone it returns exact and that domain; otherwise it returns the greatest
\* owner of an NSEC3 RRset of the zone that sorts before the hashed name, or
\* the last owner in the order of the tree, zone->nsec3_last, when there is
\* none before; so no other owner lies between the result and the hashed name.
C24_FindCover ==
  query.op = "find_cover" =>
    LET owners == Nsec3Owners(table, dbzone)
        h == query.hashname
        before == {d \in owners : dname_compare(d, h) < 0}
    IN /\ query.result # NULL
       /\ query.result \in owners
       /\ IF h \in owners
          THEN query.exact /\ query.result = h
          ELSE /\ ~query.exact
               /\ IF before # {}
                  THEN /\ query.result = radix_last(before)
                       /\ \A d \in owners :
                            ~(dname_compare(query.result, d) < 0
                              /\ dname_compare(d, h) < 0)
                  ELSE /\ query.result = radix_last(owners)
                       /\ query.result = dbzone.nsec3_last
                       /\ \A d \in owners : dname_compare(h, d) < 0

\* the hashed name sorts before the two NSEC3 owners of the zone, and the
\* last of them covers it
C24_Witness ==
  /\ query.op = "find_cover"
  /\ Cardinality(Nsec3Owners(table, dbzone)) = 2
  /\ \A d \in Nsec3Owners(table, dbzone) : dname_compare(query.hashname, d) < 0
  /\ ~query.exact
  /\ query.result = dbzone.nsec3_last


\* the hash of *.CE is the name of an NSEC3 owner of the zone, and CE has no
\* wildcard child in the tree
WildcardDenialCollision(ce) ==
  /\ Append(ce, WILDCARD) \notin table.nametree
  /\ nsec3_hash_dname(table, dbzone, Append(ce, WILDCARD))
       \in Nsec3Owners(table, dbzone)

\* C25: a name error whose closest encloser has no wildcard child, while the
\* hash of its wildcard child is the name of an NSEC3 owner of the zone,
\* leaves nsec3_answer_authoritative with RCODE SERVFAIL.
C25_CollisionServfail ==
  (/\ query.op = "answer"
   /\ query.match = NULL
   /\ WildcardDenialCollision(query.closest_encloser))
  => query.rcode = "SERVFAIL"


\* ------------------------------------------------------------ claims: query
\* the names on the path from x down to qname, both left out
StrictlyBetween(x, qname) ==
  {SubSeq(qname, 1, k) : k \in (Len(x) + 1)..(Len(qname) - 1)}

\* C26: query_process answers a query from a wildcard *.X only when the
\* query name is not in the database and no name strictly between X and the
\* query name is in the database.
C26_WildcardBlocked ==
  (query.op = "query_process" /\ query.reply.wildcard) =>
    /\ query.q.qname \notin DOMAIN db
    /\ \A n \in StrictlyBetween(strip_label(query.reply.owner), query.q.qname) :
         n \notin DOMAIN db


\* the longest name above qname that is in the database
ClosestEncloser(qname) ==
  LET above == {k \in 0..(Len(qname) - 1) : SubSeq(qname, 1, k) \in DOMAIN db}
  IN SubSeq(qname, 1, CHOOSE k \in above : \A j \in above : j <= k)

\* C27: a query for a name that is not in the database, whose closest
\* encloser X is not a delegation and has a wildcard child *.X with an
\* answer for the query type, is answered from *.X with RCODE NOERROR, also
\* when X is the apex of a zone.
C27_WildcardExpanded ==
  (/\ query.op = "query_process"
   /\ query.q = PlainQuery(query.q.qname, query.q.qtype)
   /\ query.q.qname \notin DOMAIN db
   /\ \E k \in 0..(Len(query.q.qname) - 1) : SubSeq(query.q.qname, 1, k) \in DOMAIN db
   /\ ~db[ClosestEncloser(query.q.qname)].delegation
   /\ Append(ClosestEncloser(query.q.qname), WILDCARD) \in DOMAIN db
   /\ db_answer(db, Append(ClosestEncloser(query.q.qname), WILDCARD), query.q.qtype))
  => /\ query.reply.rcode = "OK"
     /\ query.reply.section = "answer"
     /\ query.reply.owner = Append(ClosestEncloser(query.q.qname), WILDCARD)

\* C28: a query whose QDCOUNT is not 1, or whose ANCOUNT, NSCOUNT or ARCOUNT
\* is not 0, is answered with RCODE FORMERR.
C28_CountsFormErr ==
  (/\ query.op = "query_process"
   /\ \/ query.q.qdcount # 1
      \/ query.q.ancount # 0
      \/ query.q.nscount # 0
      \/ query.q.arcount # 0)
  => query.reply.rcode = "FORMAT"

\* C29: a query for a name that has, from the name itself up to the root, no
\* name with an SOA and no delegation in the database is answered with RCODE
\* REFUSED.
C29_NoZoneRefused ==
  (/\ query.op = "query_process"
   /\ query.q = PlainQuery(query.q.qname, query.q.qtype)
   /\ \A k \in 0..Len(query.q.qname) :
        LET n == SubSeq(query.q.qname, 1, k)
        IN n \in DOMAIN db => ~db[n].delegation /\ ~db_answer(db, n, "SOA"))
  => query.reply.rcode = "REFUSE"


\* ------------------------------------------------------------ claims: zonec
\* C30: after any sequence of process_rr calls every RRset that is linked to
\* a domain holds at least one RR, and zone->soa_rrset, once set, is an SOA
\* RRset at the apex of the zone that holds exactly one RR.
C30_RRsetsNotEmpty ==
  /\ \A d \in table.nametree :
       \A i \in 1..Len(table.dom[d].rrsets) : table.dom[d].rrsets[i].rrslen >= 1
  /\ dbzone.soa_rrset # NULL =>
       /\ dbzone.soa_rrset = dbzone.domain
       /\ domain_find_rrset(table, dbzone.domain, dbzone, "SOA") # 0
       /\ table.dom[dbzone.domain].rrsets[
            domain_find_rrset(table, dbzone.domain, dbzone, "SOA")].rrslen = 1

\* ------------------------------------------- the control channel at work
NoRequest == [cmd |-> "", arg |-> 0, arg2 |-> "", fail |-> FALSE]

Request(cmd, arg, arg2, fail) == [cmd |-> cmd, arg |-> arg, arg2 |-> arg2, fail |-> fail]

\* the requests a peer sends after the handshake
Requests ==
  {Request(c, 0, "", FALSE) :
     c \in {"bad magic", "bad version", "stop", "status", "stats",
            "stats_noreset", "log_reopen", "unknown"}}
    \cup {Request("reload", a, "", FALSE) : a \in {-1, 0, ConfZone, DynZone}}
    \cup {Request("verbosity", a, "", FALSE) : a \in {-1, 1}}
    \cup {Request("delzone", a, "", FALSE) : a \in {-1, ConfZone, DynZone}}
    \cup {Request("addzone", a, p, FALSE) :
            a \in {-1, DynZone}, p \in {"", "nosuch", "master", "slave"}}
    \cup {Request("addzone", a, "slave", TRUE) : a \in {ConfZone, DynZone}}

\* what the first SSL_do_handshake of a callback can give
Handshakes == {"want_read", "want_write", "handshake failed", "not authorized", "request"}

\* the control channel runs until the process stops
RemoteRunning == rc.last.op \notin {"close", "abort"}

\* the rc_state that remote_accept_callback sets up
rc_state_new ==
  [shake_state |-> "rc_hs_read", in_stats_list |-> 0, stats_next |-> 0,
   event_types |-> "read"]

\* a callback of connection s that gave h
Called(op, s, req, h) ==
  [h.rc EXCEPT !.last =
     [op |-> IF h.crashed THEN "abort" ELSE op, s |-> s, how |-> "connected",
      req |-> req, reply |-> h.reply, printed |-> <<>>, crashed |-> h.crashed]]

\* remote_accept_callback with the limit tested one connection late
remote_accept_callback_late(r, how, ev, req, ub) ==
  LET n == CHOOSE i \in 1..(r.active + 1) : i \notin DOMAIN r.conn
      r1 == [r EXCEPT !.busy_list = <<n>> \o @,
                      !.active = @ + 1,
                      !.conn = [i \in DOMAIN @ \cup {n} |->
                                  IF i = n THEN rc_state_new ELSE @[i]]]
      refused(why) == [r EXCEPT !.last = [op |-> "accept", s |-> 0, how |-> why,
                                         req |-> NoRequest, reply |-> <<>>,
                                         printed |-> <<>>, crashed |-> FALSE]]
  IN IF how = "accept failed" THEN refused("accept failed")
     ELSE IF r.active > r.max_active THEN refused("too many")
     ELSE IF how = "setup failed" THEN refused("setup failed")
     ELSE Called("accept", n, req, remote_control_callback(r1, n, ev, req, ub))

\* remote_accept_callback: how is what accept and the setup of the
\* connection gave; a connection set up gets its first callback at once
remote_accept_callback(r, how, ev, req, ub) ==
  LET n == CHOOSE i \in 1..(r.active + 1) : i \notin DOMAIN r.conn
      r1 == [r EXCEPT !.busy_list = <<n>> \o @,
                      !.active = @ + 1,
                      !.conn = [i \in DOMAIN @ \cup {n} |->
                                  IF i = n THEN rc_state_new ELSE @[i]]]
      refused(why) == [r EXCEPT !.last = [op |-> "accept", s |-> 0, how |-> why,
                                         req |-> NoRequest, reply |-> <<>>,
                                         printed |-> <<>>, crashed |-> FALSE]]
  IN IF how = "accept failed" THEN refused("accept failed")
     ELSE IF r.active >= r.max_active THEN refused("too many")
     ELSE IF how = "setup failed" THEN refused("setup failed")
     ELSE Called("accept", n, req, remote_control_callback(r1, n, ev, req, ub))

\* what a callback meets: the handshake's result, the request read after
\* it, and what the read of a null zone gives to a reload without argument
RequestInputs(reqs) ==
  {[ev |-> "request", req |-> q, ub |-> "value"] : q \in reqs}
    \cup {[ev |-> "request", req |-> q, ub |-> "crash"] :
            q \in reqs \cap {Request("reload", 0, "", FALSE)}}

HandshakeInputs ==
  {[ev |-> e, req |-> NoRequest, ub |-> "value"] : e \in Handshakes \ {"request"}}

\* the requests that tell the ways of a connection apart
ConnRequests ==
  {Request(c, 0, "", FALSE) : c \in {"bad magic", "status", "stats", "stats_noreset"}}

ConnInputs == HandshakeInputs \cup RequestInputs(ConnRequests)

Accepts == {"accept failed", "setup failed", "connected"}

RemoteAccept(hows, inputs) ==
  /\ RemoteRunning
  /\ \E how \in hows, in \in inputs :
       /\ rc' = remote_accept_callback(rc, how, in.ev, in.req, in.ub)
       /\ Len(rc'.xfrd.tasks) <= MaxTasks
  /\ UNCHANGED <<table, removed, xfrvars, dbzone, prehashed, db, query>>

\* a connection in its handshake becomes readable or writable
RemoteCallback(inputs) ==
  /\ RemoteRunning
  /\ \E s \in DOMAIN rc.conn, in \in inputs :
       /\ rc.conn[s].event_types # "none"
       /\ rc' = Called("callback", s, in.req,
                        remote_control_callback(rc, s, in.ev, in.req, in.ub))
       /\ Len(rc'.xfrd.tasks) <= MaxTasks
  /\ UNCHANGED <<table, removed, xfrvars, dbzone, prehashed, db, query>>

\* a connection in its handshake meets its timeout
RemoteTimeout ==
  /\ RemoteRunning
  /\ \E s \in DOMAIN rc.conn :
       /\ rc.conn[s].event_types # "none"
       /\ rc' = Called("timeout", s, NoRequest,
                        remote_control_callback(rc, s, "timeout", NoRequest, "value"))
  /\ UNCHANGED <<table, removed, xfrvars, dbzone, prehashed, db, query>>

\* daemon_remote_process_stats: the loop over stats_list; with ndebug the
\* assertion is compiled out, without it a failed assertion stops the process
RECURSIVE daemon_remote_process_stats(_, _, _)
daemon_remote_process_stats(r, ndebug, printed) ==
  IF r.stats_list = 0
  THEN [rc |-> r, printed |-> printed, assert_failed |-> FALSE]
  ELSE IF r.conn[r.stats_list].in_stats_list = 0 /\ ~ndebug
  THEN [rc |-> r, printed |-> printed, assert_failed |-> TRUE]
  ELSE daemon_remote_process_stats(
         clean_point([r EXCEPT !.stats_list = busy_next(r, r.stats_list),
                               !.conn[r.stats_list].in_stats_list = 0],
                     r.stats_list),
         ndebug, Append(printed, r.stats_list))

\* the reload is done and xfrd has the statistics printed
RemoteProcessStats ==
  /\ RemoteRunning
  /\ \E ndebug \in BOOLEAN : \E p \in {daemon_remote_process_stats(rc, ndebug, <<>>)} :
       rc' = [p.rc EXCEPT !.last =
                [op |-> IF p.assert_failed THEN "abort" ELSE "process_stats",
                 s |-> 0, how |-> "", req |-> NoRequest, reply |-> <<>>,
                 printed |-> p.printed, crashed |-> p.assert_failed]]
  /\ UNCHANGED <<table, removed, xfrvars, dbzone, prehashed, db, query>>

RemoteClose ==
  /\ RemoteRunning
  /\ rc' = daemon_remote_close(rc)
  /\ UNCHANGED <<table, removed, xfrvars, dbzone, prehashed, db, query>>

RemoteInit ==
  /\ XfrQuiet
  /\ TableCreated

\* connections come, shake hands, ask, wait and go
RemoteNext ==
  \/ RemoteAccept(Accepts, ConnInputs)
  \/ RemoteCallback(ConnInputs)
  \/ RemoteTimeout
  \/ RemoteProcessStats
  \/ RemoteClose

SpecRemote == RemoteInit /\ [][RemoteNext]_vars

\* authorized peers connect and send their commands
ControlNext ==
  \/ RemoteAccept({"connected"}, RequestInputs(Requests))
  \/ RemoteProcessStats

SpecControl == RemoteInit /\ [][ControlNext]_vars

\* ------------------------------------------------------------------- C31
\* C31: active is the number of connections in busy_list and never above
\* max_active; a connection accepted while active = max_active is closed at
\* once, and busy_list, stats_list, active and the connections stay as they
\* were.
C31_ActiveCounted ==
  /\ rc.active = Len(rc.busy_list)
  /\ rc.active <= rc.max_active
  /\ {rc.busy_list[i] : i \in 1..Len(rc.busy_list)} = DOMAIN rc.conn
  /\ Cardinality(DOMAIN rc.conn) = Len(rc.busy_list)

C31_RefusedStep ==
  (rc'.last.op = "accept" /\ rc.active = rc.max_active)
    => /\ rc'.last.how \in {"too many", "accept failed"}
       /\ rc'.last.s = 0
       /\ rc'.busy_list = rc.busy_list
       /\ rc'.stats_list = rc.stats_list
       /\ rc'.active = rc.active
       /\ rc'.conn = rc.conn
       /\ rc'.xfrd = rc.xfrd

C31_ActiveBounded == [](C31_ActiveCounted) /\ [][C31_RefusedStep]_vars

C31_Witness ==
  /\ rc.last.op = "accept"
  /\ rc.last.how = "too many"
  /\ rc.active = rc.max_active
  /\ rc.stats_list # 0
  /\ \E s \in DOMAIN rc.conn : rc.conn[s].shake_state = "rc_hs_write"

\* ------------------------------------------------------------------- C32
\* the step handled the request of a peer
Handled(cmd) ==
  /\ rc'.last.op \in {"accept", "callback", "abort"}
  /\ rc'.last.req.cmd = cmd

FirstLine(reply, head) == reply # <<>> /\ reply[1].head = head

\* C32: reload without argument schedules a reload and replies ok; reload
\* of a configured zone queues the check of its zonefile, schedules a reload
\* and replies ok; reload of a name that does not parse or is not configured
\* writes an error line and schedules nothing.
C32_ReloadStep ==
  Handled("reload") =>
    IF rc'.last.req.arg = 0
    THEN /\ rc'.last.reply = <<Line("ok", "")>>
         /\ rc'.xfrd.need_to_send_reload
    ELSE IF rc'.last.req.arg \in DOMAIN rc.xfrd.zone_options
    THEN /\ rc'.last.reply = <<Line("ok", "")>>
         /\ rc'.xfrd.need_to_send_reload
         /\ rc'.xfrd.tasks =
              Append(rc.xfrd.tasks, [task_type |-> "check_zonefiles",
                                     zname |-> rc'.last.req.arg, pname |-> ""])
    ELSE /\ FirstLine(rc'.last.reply, "error")
         /\ rc'.xfrd = rc.xfrd

C32_ReloadAccepted == [][C32_ReloadStep]_vars

\* ------------------------------------------------------------------- C33
\* the commands that fail: the name, number, pattern or command is not
\* accepted, or the zone cannot be added or deleted
Rejected(x, req) ==
  CASE req.cmd = "reload" ->
         req.arg = -1 \/ (req.arg # 0 /\ req.arg \notin DOMAIN x.zone_options)
    [] req.cmd = "verbosity" -> req.arg = -1
    [] req.cmd = "addzone" ->
         \/ req.arg2 \notin Patterns
         \/ req.arg = -1
         \/ req.fail
         \/ req.arg \in DOMAIN x.zone_options
    [] req.cmd = "delzone" ->
         \/ req.arg = -1
         \/ (req.arg \in DOMAIN x.zone_options /\ x.zone_options[req.arg].part_of_config)
    [] req.cmd \in {"unknown", "bad version"} -> TRUE
    [] OTHER -> FALSE

\* the step handled a command and the process lived on
Answered ==
  /\ rc'.last.op \in {"accept", "callback"}
  /\ rc'.last.req.cmd \notin {"", "bad magic"}

\* C33 as stated: the reply to every control command begins with the line
\* ok when the command succeeded and with a line that starts with error
\* when it failed.
C33_OkOrErrorStep ==
  Answered =>
    IF Rejected(rc.xfrd, rc'.last.req)
    THEN FirstLine(rc'.last.reply, "error")
    ELSE FirstLine(rc'.last.reply, "ok")

C33_OkOrError == [][C33_OkOrErrorStep]_vars

\* C33, amended: a failed command is answered with a line that starts with
\* error; a command that succeeded is answered with ok, but status with its
\* version line, delzone of a zone that is not present with a warning line
\* before the ok, and stats and stats_noreset with nothing until the
\* statistics are printed; a command that stops the process gets no reply.
C33_ReplyStep ==
  /\ Answered =>
       IF Rejected(rc.xfrd, rc'.last.req)
       THEN FirstLine(rc'.last.reply, "error")
       ELSE IF rc'.last.req.cmd = "status"
       THEN FirstLine(rc'.last.reply, "version:")
       ELSE IF rc'.last.req.cmd \in {"stats", "stats_noreset"}
       THEN rc'.last.reply = <<>>
       ELSE IF rc'.last.req.cmd = "delzone"
               /\ rc'.last.req.arg \notin DOMAIN rc.xfrd.zone_options
       THEN rc'.last.reply = <<Line("warning", "zone not present"), Line("ok", "")>>
       ELSE rc'.last.reply = <<Line("ok", "")>>
  /\ (rc'.last.op = "abort" /\ rc'.last.req.cmd # "") => rc'.last.reply = <<>>

C33_Reply == [][C33_ReplyStep]_vars

C33_Witness ==
  /\ rc.last.op = "accept"
  /\ rc.last.req.cmd = "delzone"
  /\ FirstLine(rc.last.reply, "warning")
  /\ rc.xfrd.tasks # <<>>

\* ------------------------------------------------------------------- C34
\* C34: an addzone without second argument, with an unknown pattern, with a
\* name that does not parse or whose zonelist entry cannot be added, and a
\* delzone of a name that does not parse or of a zone of nsd.conf, is
\* answered with an error line and leaves the zone list, the task list,
\* the reload request and xfrd's secondary zones and notify zones as they
\* were.
C34_RejectStep ==
  (/\ Answered
   /\ rc'.last.req.cmd \in {"addzone", "delzone"}
   /\ Rejected(rc.xfrd, rc'.last.req))
    => /\ FirstLine(rc'.last.reply, "error")
       /\ Len(rc'.last.reply) = 1
       /\ rc'.xfrd.zone_options = rc.xfrd.zone_options
       /\ rc'.xfrd.tasks = rc.xfrd.tasks
       /\ rc'.xfrd.need_to_send_reload = rc.xfrd.need_to_send_reload
       /\ rc'.xfrd.zones = rc.xfrd.zones
       /\ rc'.xfrd.notify_zones = rc.xfrd.notify_zones

C34_RejectedKeepsState == [][C34_RejectStep]_vars

C34_Witness ==
  /\ rc.last.op = "accept"
  /\ rc.last.req.cmd = "addzone"
  /\ rc.last.req.fail
  /\ rc.last.req.arg = DynZone
  /\ DynZone \notin DOMAIN rc.xfrd.zone_options
  /\ FirstLine(rc.last.reply, "error")
  /\ rc.xfrd.tasks # <<>>

\* ------------------------------------------------------------------- C39
\* the connections that asked for statistics and wait for them
WaitingForStats(r) == {s \in DOMAIN r.conn : r.conn[s].in_stats_list # 0}

\* the step is a call of daemon_remote_process_stats
ProcessedStats ==
  \/ rc'.last.op = "process_stats"
  \/ rc'.last.op = "abort" /\ rc'.last.req.cmd = ""

\* C39: daemon_remote_process_stats prints the statistics to exactly the
\* connections that asked for them and wait in stats_list, each once, and
\* closes them; its assertion holds; no other connection is written to or
\* closed.
C39_StatsStep ==
  ProcessedStats =>
    /\ ~rc'.last.crashed
    /\ Len(rc'.last.printed) = Cardinality(WaitingForStats(rc))
    /\ {rc'.last.printed[i] : i \in 1..Len(rc'.last.printed)} = WaitingForStats(rc)
    /\ DOMAIN rc'.conn = DOMAIN rc.conn \ WaitingForStats(rc)
    /\ \A s \in DOMAIN rc'.conn : rc'.conn[s] = rc.conn[s]

C39_StatsToWaiting == [][C39_StatsStep]_vars

\* ------------------------------------------------------------------- C35
\* nsd has loaded the SOA that xfrd has on disk
NsdHasDiskSerial(z) ==
  /\ z.soa_nsd_acquired # 0
  /\ z.soa_nsd.serial = z.soa_disk.serial

\* C35: a zone in state expired is never set to ok while nsd has not
\* loaded the serial on disk: after a step from expired to ok, soa_nsd is
\* acquired and has the serial of soa_disk.
C35_ExpiredToOkStep ==
  (zone.state = "expired" /\ zone'.state = "ok") => NsdHasDiskSerial(zone')

C35_ExpiredUntilLoaded == [][C35_ExpiredToOkStep]_vars

\* --------------------------------------------------- the stream of a reply
\* The answer sections of the messages of a stream: up to MaxAnswer RRs,
\* each the SOA of serial 2 or 3 or another RR.
StreamAnswers ==
  UNION {[1..k -> {SoaRR(2), SoaRR(3), OtherRR}] : k \in 1..MaxAnswer}

\* the RRs of the reply read so far
StreamOf(o) == IF "stream" \in DOMAIN o THEN o.stream ELSE <<>>

\* a zone with and without an SOA on disk, after its first request to a
\* master that is asked for IXFR over UDP or for AXFR over TCP
StreamInit ==
  /\ TableCreated
  /\ \E request_xfr \in MasterLists, dbsoa \in {<<>>, <<Soa(2)>>} :
       zone = xfrd_make_request(
                xfrd_init_zone(Masters(request_xfr), dbsoa, 1), TRUE, 1, <<0, 0>>)
  /\ difflog = <<>>
  /\ now = 1
  /\ pc = "run"
  /\ obs = ObsIdle

\* xfrd_tcp_read of the next message of the stream; the observer keeps the
\* RRs, the result, whether the transfer was committed, and the disk SOA
\* at the time the stream began
StreamRead(packet) ==
  /\ pc = "run"
  /\ zone.tcp_conn # -1
  /\ zone.msg_seq_nr < MaxParts
  /\ \E r \in {xfrd_handle_received_xfr_packet(
                  xfrd_set_timer(zone, now + XFRD_TCP_TIMEOUT, now, <<0, 0>>),
                  difflog, packet, now, <<0, 0>>)} :
        /\ zone' = IF r.res = "more" THEN r.zone ELSE xfrd_tcp_release(r.zone)
        /\ difflog' = r.difflog
        /\ pc' = IF r.res \in {"more", "transfer", "newlease"}
                 THEN "run" ELSE "make_request"
        /\ obs' = [res |-> r.res,
                   commit |-> r.at_commit # <<>>,
                   stream |-> StreamOf(obs) \o packet.answer,
                   disk0 |-> IF StreamOf(obs) = <<>>
                             THEN [soa_disk |-> zone.soa_disk,
                                   soa_disk_acquired |-> zone.soa_disk_acquired]
                             ELSE obs.disk0]
  /\ UNCHANGED <<now, table, removed, qvars>>

\* a truncated reply over UDP sends the request to TCP; then the stream
StreamNext ==
  \/ \E packet \in {Reply(zone, <<SoaRR(3)>>, "none", TRUE)} :
       UdpRead(packet, <<0, 0>>)
  \/ \E answer \in StreamAnswers :
       StreamRead(Reply(zone, answer, "none", FALSE))

SpecStream == StreamInit /\ [][StreamNext]_vars

\* ------------------------------------------------------------------- C36
\* the serial of the SOA that begins the stream
NewSerial(s) == s[1].serial

\* the second RR is an SOA with another serial than the first
SecondIsOldSoa(s) ==
  Len(s) >= 2 /\ s[2].type = "SOA" /\ s[2].serial # NewSerial(s)

\* the SOAs of the stream that carry the new serial, the first RR counted
NewSoas(s) ==
  Cardinality({i \in 1..Len(s) : s[i].type = "SOA" /\ s[i].serial = NewSerial(s)})

\* the stream begins with an SOA that starts a transfer: xfrd has no SOA on
\* disk, or one with another serial (the zone is expired, as after the
\* start of xfrd, and takes any other serial)
BeginsTransfer(o) ==
  /\ StreamOf(o) # <<>>
  /\ o.stream[1].type = "SOA"
  /\ \/ o.disk0.soa_disk_acquired = 0
     \/ o.disk0.soa_disk.serial # NewSerial(o.stream)

\* the old serial of an IXFR is that of the SOA on disk
StartsAtDisk(o) ==
  /\ o.disk0.soa_disk_acquired # 0
  /\ o.stream[2].serial = o.disk0.soa_disk.serial

\* C36: xfrd_xfr_check_rrs takes a stream for an IXFR exactly when its
\* second RR is an SOA whose serial is not the new serial of the first SOA,
\* and then rejects it unless there is an SOA on disk with that serial; the
\* stream is done at the second SOA with the new serial for an AXFR, at the
\* third (the first RR counted) for an IXFR, and not before.
C36_StreamChecked ==
  (BeginsTransfer(obs) /\ Len(obs.stream) >= 2) =>
    /\ (zone.msg_is_ixfr # 0) <=> SecondIsOldSoa(obs.stream)
    /\ IF SecondIsOldSoa(obs.stream) /\ ~StartsAtDisk(obs)
       THEN obs.res = "bad" /\ ~obs.commit
       ELSE /\ obs.res = "more" <=> ~obs.commit
            /\ obs.commit <=>
                 (NewSoas(obs.stream) >= IF SecondIsOldSoa(obs.stream) THEN 3 ELSE 2)

C36_Witness ==
  /\ BeginsTransfer(obs)
  /\ SecondIsOldSoa(obs.stream)
  /\ StartsAtDisk(obs)
  /\ obs.commit
  /\ NewSoas(obs.stream) = 3
  /\ zone.msg_seq_nr = 2

\* ------------------------------------------------- NOTIFY seen from outside
\* A NOTIFY for the zone is passed on; the observer keeps its SOA and the
\* entry of allow_notify it came from.
NotifyPassed(soa, acl_num) ==
  /\ pc = "run"
  /\ zone' = xfrd_handle_passed_packet(zone, soa, acl_num, now)
  /\ obs' = [ObsIdle EXCEPT !.res = "notify"] @@ [soa |-> soa, acl_num |-> acl_num]
  /\ UNCHANGED <<difflog, now, pc, table, removed, qvars>>

\* timers, requests and replies for one zone and NOTIFY with and without an
\* SOA, of the serial on disk, an older and a newer one, from a master and
\* from the host that is no master; random() returns 0
IgnoredNext ==
  \/ ZoneSteps({<<0, 0>>}, MaxRequests)
  \/ \E soa \in NotifySoas \cup {<<Soa(1)>>}, acl_num \in {0, MaxMasters} :
       NotifyPassed(soa, acl_num)

SpecIgnored == ZoneInit /\ [][IgnoredNext]_vars

\* ------------------------------------------------------------------- C38
\* the step passed on a NOTIFY with an SOA that is not newer than the SOA on
\* disk of a zone that is not expired
OldNotifyStep ==
  /\ obs'.res = "notify"
  /\ "soa" \in DOMAIN obs'
  /\ obs'.soa # <<>>
  /\ zone.soa_disk_acquired # 0
  /\ zone.state # "expired"
  /\ compare_serial(obs'.soa[1].serial, zone.soa_disk.serial) <= 0

\* the place in the list of masters of the host the NOTIFY came from, -1
\* when it is no master
NotifyingMaster(z, acl_num) ==
  LET host == z.zone_options.allow_notify[acl_num + 1].host
      at == {k \in 1..Len(z.zone_options.request_xfr) :
               z.zone_options.request_xfr[k].host = host}
  IN IF at = {} THEN -1 ELSE (CHOOSE k \in at : \A j \in at : k <= j) - 1

\* C38 as stated: the NOTIFY is ignored, the state, soa_notified,
\* soa_notified_acquired, the zone timer, master, master_num, next_master
\* and round_num are unchanged.
C38_AllUnchangedStep ==
  OldNotifyStep =>
    /\ zone'.state = zone.state
    /\ zone'.soa_notified = zone.soa_notified
    /\ zone'.soa_notified_acquired = zone.soa_notified_acquired
    /\ zone'.timeout = zone.timeout
    /\ zone'.master = zone.master
    /\ zone'.master_num = zone.master_num
    /\ zone'.next_master = zone.next_master
    /\ zone'.round_num = zone.round_num

C38_AllUnchanged == [][C38_AllUnchangedStep]_vars

\* C38, amended: all of these are unchanged but next_master, which becomes
\* the place of the notifying host in the list of masters when it is one.
C38_IgnoredStep ==
  OldNotifyStep =>
    /\ zone'.state = zone.state
    /\ zone'.soa_notified = zone.soa_notified
    /\ zone'.soa_notified_acquired = zone.soa_notified_acquired
    /\ zone'.timeout = zone.timeout
    /\ zone'.master = zone.master
    /\ zone'.master_num = zone.master_num
    /\ zone'.round_num = zone.round_num
    /\ zone'.next_master =
         IF NotifyingMaster(zone, obs'.acl_num) # -1
         THEN NotifyingMaster(zone, obs'.acl_num)
         ELSE zone.next_master

C38_Ignored == [][C38_IgnoredStep]_vars

C38_Witness ==
  /\ obs.res = "notify"
  /\ "soa" \in DOMAIN obs
  /\ obs.soa = <<Soa(1)>>
  /\ obs.acl_num = 0
  /\ zone.state = "refreshing"
  /\ zone.soa_disk_acquired # 0
  /\ zone.soa_disk.serial = 2
  /\ zone.soa_notified_acquired # 0
  /\ zone.next_master = MaxMasters - 1


\* ------------------------------------------------------------------- C37
\* the step read a packet of a reply and rejected it
C37_RejectStep ==
  /\ pc = "run"
  /\ obs'.res = "bad"
  /\ ~obs'.commit

\* the record that takes back the parts of the transfer in progress
C37_Rollback ==
  [type |-> "commit", old_serial |-> zone.msg_old_serial,
   new_serial |-> zone.msg_new_serial, id |-> zone.query_id,
   seq_nr |-> obs.parts, commit |-> 0]

\* C37: when a packet of a transfer is rejected after earlier parts of it
\* were written to the difflog, exactly one commit record with the committed
\* flag cleared, naming the old and the new serial and the number of parts,
\* is appended, and nothing is appended when no part was written; soa_disk,
\* soa_disk_acquired and the zone state are unchanged.
C37_RollbackStep ==
  C37_RejectStep =>
    /\ difflog' = IF obs.parts > 0 THEN Append(difflog, C37_Rollback)
                  ELSE difflog
    /\ zone'.soa_disk = zone.soa_disk
    /\ zone'.soa_disk_acquired = zone.soa_disk_acquired
    /\ zone'.state = zone.state

C37_RollbackOnReject == [][C37_RollbackStep]_vars

\* a rollback of one part follows that part in the difflog
C37_Witness ==
  /\ obs.res = "bad"
  /\ ~obs.commit
  /\ obs.parts = 1
  /\ Len(difflog) = 2
  /\ difflog[1].type = "packet"
  /\ difflog[2].type = "commit"
  /\ difflog[2].commit = 0
  /\ difflog[2].seq_nr = 1


\* ------------------------------------------------- zonec seen from outside
\* RRs of one ttl at the apex of zone 1: MX RRs of two preferences and two
\* hosts, NS RRs of two hosts, and TXT RRs of one or two bytes.
RdataRRs ==
  {ZoneRR(ZoneApex, "MX", "IN", 1, MxRdata(p, r)) : p \in {1, 2}, r \in {1, 2}}
    \cup {ZoneRR(ZoneApex, "NS", "IN", 1, NsRdata(r)) : r \in {1, 2}}
    \cup {ZoneRR(ZoneApex, "TXT", "IN", 1, <<DataAtom(bytes)>>) :
            bytes \in {<<1>>, <<2>>, <<1, 1>>}}

\* process_rr of an RR; the observer keeps the RR, the RRs its RRset had
\* before, the place where the search for duplicates stopped and the value
\* returned.
CompileRR(rr) ==
  /\ pc = "run"
  /\ \E t \in {domain_table_insert(table, rr.domain, "greater").table} :
     \E found \in {domain_find_rrset(t, rr.domain, dbzone, rr.type)} :
     \E r \in {process_rr(t, dbzone, rr)} :
       /\ table' = r.table
       /\ dbzone' = r.zone
       /\ obs' = [res |-> "process_rr", rr |-> rr, ret |-> r.ret,
                  rrs |-> IF found = 0 THEN <<>>
                          ELSE SubSeq(t.dom[rr.domain].rrsets[found].rrs, 1,
                                      t.dom[rr.domain].rrsets[found].rrslen),
                  stopped |-> IF found = 0 THEN 1
                              ELSE find_duplicate(t.dom[rr.domain].rrsets[found],
                                                  rr.rdata)]
  /\ UNCHANGED <<zone, difflog, now, pc, removed, prehashed, db, query, rc>>

RdataNext == \E rr \in RdataRRs : CompileRR(rr)

SpecRdata == ZonecInit /\ [][RdataNext]_vars

\* ------------------------------------------------------------------- C40
\* the two arrays have the same number of atoms, and the same domain in
\* every name atom and the same length and bytes in every data atom
RdataIdentical(type, a, b) ==
  /\ Len(a) = Len(b)
  /\ \A i \in 1..Len(a) :
       IF rdata_atom_is_domain(type, i - 1)
       THEN a[i].domain = b[i].domain
       ELSE a[i].data = b[i].data

\* C40: zrdatacmp returns zero exactly when the two arrays have the same
\* number of atoms and equal atoms, so the search for duplicates stops at
\* the first RR with identical rdata, and process_rr discards an RR as a
\* duplicate only when an RR with identical rdata is in the RRset.
C40_DuplicateIsIdentical ==
  obs.res = "process_rr" =>
    /\ \A i \in 1..Len(obs.rrs) :
         i <= obs.stopped =>
           ((i = obs.stopped)
              <=> RdataIdentical(obs.rr.type, obs.rrs[i], obs.rr.rdata))
    /\ obs.ret = 0 =>
         \E i \in 1..Len(obs.rrs) :
           RdataIdentical(obs.rr.type, obs.rrs[i], obs.rr.rdata)

====
